---- MODULE Spec2Model ----
(***************************************************************************)
(* Provider orchestration of AI-Chalkboard-Art:                            *)
(*   APIManager      (functions/lib/api-manager.ts)                        *)
(*   ImageGenerator  (functions/lib/image-generator.ts)                    *)
(* One ImageGenerator instance with its APIManager, the stored admin       *)
(* configuration, the clock, and the backends the adapters talk to.        *)
(***************************************************************************)
EXTENDS Integers, Sequences, FiniteSets, TLC

\* ---- bounds of the model ------------------------------------------------
MaxAdmin == 2          \* entries in admin_config.api_configs
MaxTime == 60000       \* last clock value (ms)
MaxErrors == 4         \* no new call starts once an errorCount reached this
MaxCalls == 2          \* calls in flight at once on one ImageGenerator
MaxOps == 2            \* administrative operations in one behaviour
MaxBody == 300         \* characters in a backend's response body

\* ---- program constants --------------------------------------------------
DisableMs == 60000     \* second argument of temporarilyDisableProvider
EnvPriority == 1       \* priority of the environment provider
DefaultPriority == 5   \* config.priority || 5
ErrorThreshold == 3    \* errorCount >= 3
resetThreshold == 1800000  \* 30 * 60 * 1000
DumpPrefix == 200      \* JSON.stringify(data).slice(0, 200)

TickSteps == {30000}
EnvId == <<"gemini-env">>
EnvName == "Google Gemini"
Undefined == -1        \* an absent optional number (lastUsed?, errorCount?)

VARIABLES
  envKey,           \* env.GEMINI_API_KEY is non-blank
  adminConfig,      \* ADMIN_KV 'admin_config'.api_configs, a sequence
  providerStats,    \* APIManager.providerStats : id -> {lastUsed, errorCount}
  now,              \* Date.now()
  up,               \* ids whose backend currently answers with an image
  pc,               \* "idle" | "running" | "done" : generateImageWithFallback
  sortedProviders,  \* the call's sortedProviders
  i,                \* the loop index (0-based, as in the source)
  allAttempts,      \* the call's allAttempts
  lastError,        \* the call's lastError message ("" = null)
  result,           \* the GenerationResult the call returned
  adapterCalls,     \* adapter (network) invocations made by the call
  tripAt,           \* id -> time at which its errorCount last reached 3
  lastOp,           \* the most recent administrative operation and its outcome
  options,          \* the second argument the caller passed to the running call
  silent,           \* ids whose backend never answers
  inFlight,         \* positions of the call's order whose adapter call is pending
  embedded,         \* response-body characters in the error of the last failed attempt
  stored,           \* what ADMIN_KV holds under 'admin_config': "null" | "noList" | "list"
  httpResponse,     \* what onRequestPost answered, NoResponse before it has
  pending           \* admin requests between their KV get and their KV put

vars == <<envKey, adminConfig, providerStats, now, up, pc, sortedProviders, i,
          allAttempts, lastError, result, adapterCalls, tripAt, lastOp,
          options, silent, inFlight, embedded, stored, httpResponse, pending>>

\* the variables of the later specifications
moreVars == <<embedded, stored, httpResponse, pending>>

\* what the caller and the backends decide, and the pending adapter calls
extVars == <<options, silent, inFlight, moreVars>>

callVars == <<pc, sortedProviders, i, allAttempts, lastError, result, adapterCalls>>

\* ---- configuration ------------------------------------------------------
\* key, url, model: TRUE when the stored string is non-blank.
\* priority 0 stands for an absent (falsy) priority.
Cfg(n, p, en, k, u, m, pr) ==
  [name |-> n, provider |-> p, enabled |-> en, key |-> k, url |-> u,
   model |-> m, priority |-> pr]

ConfigPool ==
  { Cfg("A", "grok",   TRUE,  TRUE,  TRUE,  TRUE,  1),
    Cfg("B", "custom", TRUE,  TRUE,  TRUE,  TRUE,  0),
    Cfg("C", "gemini", TRUE,  TRUE,  FALSE, TRUE,  3),
    Cfg("D", "openai", TRUE,  TRUE,  TRUE,  TRUE,  3),
    Cfg("E", "grok",   FALSE, TRUE,  TRUE,  TRUE,  1),
    Cfg("F", "custom", TRUE,  FALSE, TRUE,  TRUE,  1) }

SeqsUpTo(S, n) == UNION { [1..k -> S] : k \in 0..n }

\* the admin handlers store no two entries under one name
DistinctNames(configs) ==
  \A a, b \in 1..Len(configs) : configs[a].name = configs[b].name => a = b

\* ---- small helpers ------------------------------------------------------
OrZero(x) == IF x = Undefined THEN 0 ELSE x

\* Map.get(id) || { lastUsed: 0, errorCount: 0 }
StatsOrDefault(stats, id) ==
  IF id \in DOMAIN stats THEN stats[id] ELSE [lastUsed |-> 0, errorCount |-> 0]

MapSet(stats, id, rec) ==
  [x \in DOMAIN stats \cup {id} |-> IF x = id THEN rec ELSE stats[x]]

\* ---- APIManager ---------------------------------------------------------
ProviderId(config, index) == <<config.provider, config.name, index>>

\* EnvProvider with lastUsed and errorCount read from providerStats, as the
\* stored entries have them
EnvProvider_readsStats ==
  [id |-> EnvId, name |-> EnvName, provider |-> "gemini", type |-> "env",
   key |-> TRUE, baseUrl |-> TRUE, enabled |-> TRUE, priority |-> EnvPriority,
   model |-> TRUE,
   lastUsed |-> StatsOrDefault(providerStats, EnvId).lastUsed,
   errorCount |-> StatsOrDefault(providerStats, EnvId).errorCount]

EnvProvider ==
  [id |-> EnvId, name |-> EnvName, provider |-> "gemini", type |-> "env",
   key |-> TRUE, baseUrl |-> TRUE, enabled |-> TRUE, priority |-> EnvPriority,
   model |-> TRUE, lastUsed |-> Undefined, errorCount |-> Undefined]

AdminProvider(stats, config, index) ==
  LET providerId == ProviderId(config, index) IN
  [id |-> providerId, name |-> config.name, provider |-> config.provider,
   type |-> "config", key |-> config.key, baseUrl |-> config.url,
   enabled |-> TRUE,
   priority |-> IF config.priority = 0 THEN DefaultPriority ELSE config.priority,
   model |-> config.model,
   lastUsed |-> IF providerId \in DOMAIN stats THEN stats[providerId].lastUsed
                ELSE Undefined,
   errorCount |-> IF providerId \in DOMAIN stats THEN stats[providerId].errorCount
                  ELSE 0]

CmpAvailable(a, b) ==
  IF a.priority # b.priority THEN a.priority - b.priority
  ELSE IF OrZero(a.lastUsed) # OrZero(b.lastUsed)
       THEN OrZero(a.lastUsed) - OrZero(b.lastUsed)
       ELSE OrZero(a.errorCount) - OrZero(b.errorCount)

\* sortAvailable by a sort that is not stable: equal elements change places
sortAvailable_unstable(s) ==
  LET n == Len(s)
      Before(a, b) == \/ CmpAvailable(s[a], s[b]) < 0
                      \/ (CmpAvailable(s[a], s[b]) = 0 /\ a > b)
      pos(k) == 1 + Cardinality({j \in 1..n : Before(j, k)})
  IN  [r \in 1..n |-> s[CHOOSE k \in 1..n : pos(k) = r]]

\* providers.sort(...) of getAvailableProviders; Array.prototype.sort is
\* stable: elements the comparator calls equal keep their order.
sortAvailable(s) ==
  LET n == Len(s)
      Before(a, b) == \/ CmpAvailable(s[a], s[b]) < 0
                      \/ (CmpAvailable(s[a], s[b]) = 0 /\ a < b)
      pos(k) == 1 + Cardinality({j \in 1..n : Before(j, k)})
  IN  [r \in 1..n |-> s[CHOOSE k \in 1..n : pos(k) = r]]

\* getAvailableProviders without the check of config.enabled
getAvailableProviders_noEnabledCheck(key, configs, stats) ==
  LET envPart == IF key THEN <<EnvProvider>> ELSE <<>>
      idx == [k \in 1..Len(configs) |-> k]
      Keep(k) == configs[k].key
      kept == SelectSeq(idx, Keep)
      adminPart == [k \in 1..Len(kept) |->
                      AdminProvider(stats, configs[kept[k]], kept[k] - 1)]
  IN  sortAvailable(envPart \o adminPart)

getAvailableProviders(key, configs, stats) ==
  LET envPart == IF key THEN <<EnvProvider>> ELSE <<>>
      idx == [k \in 1..Len(configs) |-> k]
      Keep(k) == configs[k].enabled /\ configs[k].key
      kept == SelectSeq(idx, Keep)
      adminPart == [k \in 1..Len(kept) |->
                      AdminProvider(stats, configs[kept[k]], kept[k] - 1)]
  IN  sortAvailable(envPart \o adminPart)

\* updateProviderStats that also clears the errorCount of every other record
updateProviderStats_clearsOthers(stats, providerId, success, t) ==
  LET current == StatsOrDefault(stats, providerId) IN
  [x \in DOMAIN stats \cup {providerId} |->
     IF x # providerId THEN [lastUsed |-> stats[x].lastUsed, errorCount |-> 0]
     ELSE IF success THEN [lastUsed |-> t, errorCount |-> 0]
     ELSE [lastUsed |-> current.lastUsed, errorCount |-> current.errorCount + 1]]

updateProviderStats_keepErrors(stats, providerId, success, t) ==
  LET current == StatsOrDefault(stats, providerId) IN
  IF success
  THEN MapSet(stats, providerId, [lastUsed |-> t, errorCount |-> current.errorCount])
  ELSE MapSet(stats, providerId, [lastUsed |-> current.lastUsed,
                                  errorCount |-> current.errorCount + 1])

updateProviderStats(stats, providerId, success, t) ==
  LET current == StatsOrDefault(stats, providerId) IN
  IF success
  THEN MapSet(stats, providerId, [lastUsed |-> t, errorCount |-> 0])
  ELSE MapSet(stats, providerId, [lastUsed |-> current.lastUsed,
                                  errorCount |-> current.errorCount + 1])

\* APIManager has no member temporarilyDisableProvider: the call at
\* image-generator.ts:126 throws a TypeError and changes nothing.
temporarilyDisableProvider(stats, providerId, ms, t) ==
  [threw |-> TRUE, stats |-> stats]

\* ---- ImageGenerator -----------------------------------------------------
AdapterErrors == {"transport", "refused"}
KnownTypes == {"gemini", "grok", "custom"}
NoProvidersMsg == "no_providers_configured"
NotAFunctionMsg == "temporarilyDisableProvider is not a function"

\* the message validateProviderConfig throws, "" when it returns
validateProviderConfig(provider) ==
  IF ~provider.key THEN "missing_key"
  ELSE IF ~provider.baseUrl THEN "missing_baseUrl"
  ELSE IF ~provider.model THEN "missing_model"
  ELSE ""

\* what tryProvider throws before it reaches an adapter, "" when it reaches one
Preflight(provider) ==
  LET v == validateProviderConfig(provider) IN
  IF v # "" THEN v
  ELSE IF provider.provider \in KnownTypes THEN "" ELSE "unknown_type"

CmpSorted(a, b) ==
  IF a.priority # b.priority THEN a.priority - b.priority
  ELSE OrZero(a.errorCount) - OrZero(b.errorCount)

\* providers.sort(...) of generateImageWithFallback, stable as well
sortProviders(s) ==
  LET n == Len(s)
      Before(a, b) == \/ CmpSorted(s[a], s[b]) < 0
                      \/ (CmpSorted(s[a], s[b]) = 0 /\ a < b)
      pos(k) == 1 + Cardinality({j \in 1..n : Before(j, k)})
  IN  [r \in 1..n |-> s[CHOOSE k \in 1..n : pos(k) = r]]

Attempt(provider, ok, err) ==
  [provider |-> provider.name, providerType |-> provider.provider,
   priority |-> provider.priority, success |-> ok, error |-> err]

NoError == [kind |-> "none", parts |-> <<>>]

\* no administrative operation has been performed yet
NoOp == [op |-> "none", arg |-> <<>>, status |-> 0, seq |-> 0]

\* no Response returned yet; saved: saveImageToR2 was called
NoResponse == [status |-> 0, saved |-> FALSE, attempts |-> <<>>]

\* the variables of the request handler's answer and of split admin requests
answerVars == <<httpResponse, pending>>

\* generateImageWithFallback(prompt): no second argument
NoOptions == [excludeKeys |-> {}, signal |-> "undefined"]

NoResult ==
  [success |-> FALSE, imageBuffer |-> FALSE, provider |-> "", error |-> NoError,
   attempts |-> <<>>]

\* SuccessResult that forgets the image bytes
SuccessResult_noBuffer(provider, attempts) ==
  [success |-> TRUE, imageBuffer |-> FALSE, provider |-> provider.name,
   error |-> NoError, attempts |-> attempts]

SuccessResult(provider, attempts) ==
  [success |-> TRUE, imageBuffer |-> TRUE, provider |-> provider.name,
   error |-> NoError, attempts |-> attempts]

\* error: `...最后错误: ${lastError?.message}`
AllFailedResult(lastErr, attempts) ==
  [success |-> FALSE, imageBuffer |-> FALSE, provider |-> "",
   error |-> [kind |-> "all_failed", parts |-> <<lastErr>>],
   attempts |-> attempts]

\* SystemErrorResult without the attempts made so far
SystemErrorResult_noAttempts(msg, attempts) ==
  [success |-> FALSE, imageBuffer |-> FALSE, provider |-> "",
   error |-> [kind |-> "system", parts |-> <<msg>>],
   attempts |-> <<>>]

\* error: `系统错误: ${systemError.message}`
SystemErrorResult(msg, attempts) ==
  [success |-> FALSE, imageBuffer |-> FALSE, provider |-> "",
   error |-> [kind |-> "system", parts |-> <<msg>>],
   attempts |-> attempts]

CandidateIds ==
  LET ps == getAvailableProviders(envKey, adminConfig, providerStats)
  IN  { ps[k].id : k \in 1..Len(ps) }

\* ---- actions ------------------------------------------------------------
Init ==
  /\ envKey \in BOOLEAN
  /\ adminConfig \in SeqsUpTo(ConfigPool, MaxAdmin)
  /\ DistinctNames(adminConfig)
  /\ providerStats = <<>>
  /\ now = 30000
  /\ up \in SUBSET { ps.id : ps \in
        { getAvailableProviders(envKey, adminConfig, <<>>)[k] :
            k \in 1..Len(getAvailableProviders(envKey, adminConfig, <<>>)) } }
  /\ pc = "idle"
  /\ sortedProviders = <<>>
  /\ i = 0
  /\ allAttempts = <<>>
  /\ lastError = ""
  /\ result = NoResult
  /\ adapterCalls = 0
  /\ tripAt = <<>>
  /\ lastOp = NoOp
  /\ options = NoOptions
  /\ silent = {}
  /\ inFlight = {}
  /\ pending = {}
  /\ httpResponse = NoResponse
  /\ stored = "list"
  /\ embedded = 0

\* new ImageGenerator(env): a new APIManager with an empty providerStats
NewImageGenerator ==
  /\ pc # "running"
  /\ providerStats # <<>>
  /\ providerStats' = <<>>
  /\ tripAt' = <<>>
  /\ pc' = "idle"
  /\ sortedProviders' = <<>>
  /\ i' = 0
  /\ allAttempts' = <<>>
  /\ lastError' = ""
  /\ result' = NoResult
  /\ adapterCalls' = 0
  /\ UNCHANGED <<extVars, lastOp, envKey, adminConfig, now, up>>

\* GenerateStart without the providers.length === 0 check
GenerateStart_noEmptyCheck ==
  /\ pc # "running"
  /\ \A id \in DOMAIN providerStats : providerStats[id].errorCount < MaxErrors
  /\ LET providers == getAvailableProviders(envKey, adminConfig, providerStats) IN
     /\ allAttempts' = <<>>
     /\ lastError' = ""
     /\ adapterCalls' = 0
     /\ i' = 0
     /\ sortedProviders' = sortProviders(providers)
     /\ IF Len(providers) = 0
        THEN /\ pc' = "done"
             /\ result' = AllFailedResult("", <<>>)
        ELSE /\ pc' = "running"
             /\ result' = NoResult
  /\ UNCHANGED <<extVars, lastOp, envKey, adminConfig, providerStats, now, up, tripAt>>

\* generateImageWithFallback up to the loop: lines 37-59
GenerateStart ==
  /\ pc # "running"
  /\ \A id \in DOMAIN providerStats : providerStats[id].errorCount < MaxErrors
  /\ LET providers == getAvailableProviders(envKey, adminConfig, providerStats) IN
     /\ allAttempts' = <<>>
     /\ lastError' = ""
     /\ adapterCalls' = 0
     /\ i' = 0
     /\ IF Len(providers) = 0
        THEN /\ sortedProviders' = <<>>
             /\ pc' = "done"
             /\ result' = SystemErrorResult(NoProvidersMsg, <<>>)
        ELSE /\ sortedProviders' = sortProviders(providers)
             /\ pc' = "running"
             /\ result' = NoResult
  /\ UNCHANGED <<extVars, lastOp, envKey, adminConfig, providerStats, now, up, tripAt>>

\* AttemptSuccess without the return: the loop goes on after a success
AttemptSuccess_noReturn ==
  /\ pc = "running"
  /\ i < Len(sortedProviders)
  /\ LET provider == sortedProviders[i + 1] IN
     /\ Preflight(provider) = ""
     /\ provider.id \in up
     /\ adapterCalls' = adapterCalls + 1
     /\ allAttempts' = Append(allAttempts, Attempt(provider, TRUE, ""))
     /\ providerStats' = updateProviderStats(providerStats, provider.id, TRUE, now)
     /\ i' = i + 1
     /\ IF i + 1 < Len(sortedProviders)
        THEN /\ pc' = "running"
             /\ result' = result
        ELSE /\ pc' = "done"
             /\ result' = SuccessResult(provider, allAttempts')
  /\ UNCHANGED <<extVars, lastOp, envKey, adminConfig, now, up, sortedProviders, lastError, tripAt>>

\* one loop iteration whose tryProvider returns: lines 62-99
AttemptSuccess ==
  /\ pc = "running"
  /\ i < Len(sortedProviders)
  /\ LET provider == sortedProviders[i + 1] IN
     /\ Preflight(provider) = ""
     /\ provider.id \in up
     /\ adapterCalls' = adapterCalls + 1
     /\ allAttempts' = Append(allAttempts, Attempt(provider, TRUE, ""))
     /\ providerStats' = updateProviderStats(providerStats, provider.id, TRUE, now)
     /\ result' = SuccessResult(provider, allAttempts')
     /\ pc' = "done"
  /\ UNCHANGED <<extVars, lastOp, envKey, adminConfig, now, up, sortedProviders, i, lastError, tripAt>>

\* AttemptFailure that calls a failing adapter a second time and counts
\* both failures
AttemptFailure_retries ==
  /\ pc = "running"
  /\ i < Len(sortedProviders)
  /\ LET provider == sortedProviders[i + 1]
         pre == Preflight(provider)
     IN
     /\ pre = "" => provider.id \notin up
     /\ adapterCalls' = IF pre = "" THEN adapterCalls + 2 ELSE adapterCalls
     /\ \E err \in (IF pre = "" THEN AdapterErrors ELSE {pre}) :
          LET stats0 == updateProviderStats(providerStats, provider.id, FALSE, now)
              stats1 == updateProviderStats(stats0, provider.id, FALSE, now)
              d == temporarilyDisableProvider(stats1, provider.id, DisableMs, now)
          IN
          /\ lastError' = err
          /\ allAttempts' = Append(allAttempts, Attempt(provider, FALSE, err))
          /\ tripAt' = IF stats1[provider.id].errorCount = ErrorThreshold
                       THEN MapSet(tripAt, provider.id, now) ELSE tripAt
          /\ IF d.threw
             THEN /\ providerStats' = stats1
                  /\ i' = i
                  /\ pc' = "done"
                  /\ result' = SystemErrorResult(NotAFunctionMsg, allAttempts')
             ELSE /\ providerStats' = d.stats
                  /\ i' = i + 1
                  /\ IF i + 1 < Len(sortedProviders)
                     THEN /\ pc' = "running"
                          /\ result' = result
                     ELSE /\ pc' = "done"
                          /\ result' = AllFailedResult(err, allAttempts')
  /\ UNCHANGED <<extVars, lastOp, envKey, adminConfig, now, up, sortedProviders>>

\* one loop iteration whose tryProvider throws: lines 62-77, 101-162
AttemptFailure ==
  /\ pc = "running"
  /\ i < Len(sortedProviders)
  /\ LET provider == sortedProviders[i + 1]
         pre == Preflight(provider)
     IN
     /\ pre = "" => provider.id \notin up
     /\ adapterCalls' = IF pre = "" THEN adapterCalls + 1 ELSE adapterCalls
     /\ \E err \in (IF pre = "" THEN AdapterErrors ELSE {pre}) :
          LET stats1 == updateProviderStats(providerStats, provider.id, FALSE, now)
              d == temporarilyDisableProvider(stats1, provider.id, DisableMs, now)
          IN
          /\ lastError' = err
          /\ allAttempts' = Append(allAttempts, Attempt(provider, FALSE, err))
          /\ tripAt' = IF stats1[provider.id].errorCount = ErrorThreshold
                       THEN MapSet(tripAt, provider.id, now) ELSE tripAt
          /\ IF d.threw
             THEN /\ providerStats' = stats1
                  /\ i' = i
                  /\ pc' = "done"
                  /\ result' = SystemErrorResult(NotAFunctionMsg, allAttempts')
             ELSE /\ providerStats' = d.stats
                  /\ i' = i + 1
                  /\ IF i + 1 < Len(sortedProviders)
                     THEN /\ pc' = "running"
                          /\ result' = result
                     ELSE /\ pc' = "done"
                          /\ result' = AllFailedResult(err, allAttempts')
  /\ UNCHANGED <<extVars, lastOp, envKey, adminConfig, now, up, sortedProviders>>

\* the clock advances
Tick ==
  /\ \E d \in TickSteps : now + d <= MaxTime /\ now' = now + d
  /\ UNCHANGED <<extVars, lastOp, envKey, adminConfig, providerStats, up, tripAt, callVars>>

\* a backend starts or stops answering with an image; a call asks each
\* backend at most once, so a change during a call shows as one before it
BackendFlip ==
  /\ pc # "running"
  /\ \E id \in CandidateIds :
       up' = IF id \in up THEN up \ {id} ELSE up \cup {id}
  /\ UNCHANGED <<extVars, lastOp, envKey, adminConfig, providerStats, now, tripAt, callVars>>

Next ==
  \/ NewImageGenerator
  \/ GenerateStart
  \/ AttemptSuccess
  \/ AttemptFailure
  \/ Tick
  \/ BackendFlip

Spec == Init /\ [][Next]_vars

\* ---- vocabulary of the properties ---------------------------------------
\* the candidate's attempt would return an image
Ok(p) == Preflight(p) = "" /\ p.id \in up

Ranks == 1..Len(sortedProviders)

\* the step is one loop iteration of the running call
AttemptStep == pc = "running" /\ Len(allAttempts') = Len(allAttempts) + 1

\* the step is the return of the running call
ReturnStep == pc = "running" /\ pc' = "done"

\* the step is the entry of a call
StartStep == pc # "running" /\ pc' # "idle" /\ (pc' # pc \/ result' # result)

Mentions(error, str) == \E j \in DOMAIN error.parts : error.parts[j] = str

SameRecord(id) ==
  /\ (id \in DOMAIN providerStats') = (id \in DOMAIN providerStats)
  /\ id \in DOMAIN providerStats => providerStats'[id] = providerStats[id]

\* ---- C1 -----------------------------------------------------------------
\* C1: when every one of the N >= 1 ranked candidates fails, the call
\* attempts all N of them and returns a trace of exactly N failed entries,
\* one per candidate, in ranked order.
C1_AllFailingAllAttempted ==
  [][ (ReturnStep /\ \A k \in Ranks : ~Ok(sortedProviders[k]))
      => /\ Len(result'.attempts) = Len(sortedProviders)
         /\ \A k \in Ranks :
              /\ result'.attempts[k].provider = sortedProviders[k].name
              /\ ~result'.attempts[k].success ]_vars

\* ---- C2 -----------------------------------------------------------------
\* C2: when the candidate at rank k is the first that succeeds and all
\* candidates before it fail, the call returns success attributed to it with
\* a trace of k-1 failed entries followed by one success entry.
C2_FirstWorkingCandidateWins ==
  [][ (ReturnStep /\ \E k \in Ranks : Ok(sortedProviders[k]))
      => LET k == CHOOSE r \in Ranks :
                    /\ Ok(sortedProviders[r])
                    /\ \A j \in 1..(r - 1) : ~Ok(sortedProviders[j])
         IN  /\ result'.success
             /\ result'.provider = sortedProviders[k].name
             /\ Len(result'.attempts) = k
             /\ result'.attempts[k].success
             /\ \A j \in 1..(k - 1) :
                  /\ ~result'.attempts[j].success
                  /\ result'.attempts[j].provider = sortedProviders[j].name ]_vars

\* ---- C3 -----------------------------------------------------------------
\* C3: once an attempt succeeds the call returns at once with that candidate
\* as the provider; no candidate ranked after it is attempted or has its
\* health record touched, and a returned call makes no further attempt.
C3_FirstSuccessWins ==
  /\ [][ (AttemptStep /\ allAttempts'[Len(allAttempts')].success)
         => /\ pc' = "done"
            /\ result'.success
            /\ result'.provider = sortedProviders[i + 1].name
            /\ result'.attempts = allAttempts'
            /\ Len(allAttempts') = i + 1
            /\ \A k \in (i + 2)..Len(sortedProviders) :
                 SameRecord(sortedProviders[k].id) ]_vars
  /\ [][ pc = "done"
         => /\ adapterCalls' <= adapterCalls
            /\ allAttempts' \in {allAttempts, <<>>} ]_vars

C3_Witness ==
  /\ pc = "done"
  /\ result.success
  /\ Len(sortedProviders) >= 2
  /\ Len(result.attempts) = 1

\* ---- C4 -----------------------------------------------------------------
\* C4: a returned result is either success with image bytes and a provider
\* and no error, or failure with an error and no image bytes.
C4_ResultShape ==
  pc = "done" =>
    \/ /\ result.success
       /\ result.imageBuffer
       /\ result.provider # ""
       /\ result.error = NoError
    \/ /\ ~result.success
       /\ ~result.imageBuffer
       /\ result.error # NoError

C4_Witness == pc = "done" /\ result.success /\ result.imageBuffer

\* ---- C5 -----------------------------------------------------------------
\* C5: every call returns a value, and a failure is one of the terminal
\* kinds no-providers-configured or all-providers-exhausted.
C5_FailureIsTerminalKind ==
  (pc = "done" /\ ~result.success)
    => \/ result.error = [kind |-> "system", parts |-> <<NoProvidersMsg>>]
       \/ result.error.kind = "all_failed"

\* ---- C6 -----------------------------------------------------------------
\* C6: a call that finds the candidate list empty makes no adapter call and
\* returns success = false with the no-providers error and an empty trace,
\* leaving every health record unchanged.
C6_NoProvidersConfigured ==
  [][ (StartStep /\ Len(getAvailableProviders(envKey, adminConfig, providerStats)) = 0)
      => /\ pc' = "done"
         /\ ~result'.success
         /\ result'.error = [kind |-> "system", parts |-> <<NoProvidersMsg>>]
         /\ result'.attempts = <<>>
         /\ adapterCalls' = 0
         /\ providerStats' = providerStats ]_vars

C6_Witness ==
  /\ pc = "done"
  /\ Mentions(result.error, NoProvidersMsg)
  /\ Len(adminConfig) >= 1
  /\ Len(getAvailableProviders(envKey, adminConfig, providerStats)) = 0

\* ---- C7 -----------------------------------------------------------------
\* C7: the error of a call in which the attempts failed names every
\* attempted provider together with its own failure reason.
C7_AggregatedErrorNamesAll ==
  (pc = "done" /\ ~result.success /\ Len(result.attempts) >= 1)
    => \A k \in 1..Len(result.attempts) :
         /\ Mentions(result.error, result.attempts[k].provider)
         /\ Mentions(result.error, result.attempts[k].error)

\* ---- C8 -----------------------------------------------------------------
\* C8: a descriptor whose errorCount reached 3 is not attempted during the
\* following 60 seconds.
C8_CircuitBreakerWindow ==
  [][ AttemptStep
      => LET id == sortedProviders[i + 1].id IN
         ~ /\ id \in DOMAIN tripAt
           /\ StatsOrDefault(providerStats, id).errorCount >= ErrorThreshold
           /\ now < tripAt[id] + DisableMs ]_vars

\* ---- C9 -----------------------------------------------------------------
\* C9: a health record whose errorCount is >= 3 has a disable window.
C9_ThresholdHasDisableWindow ==
  \A id \in DOMAIN providerStats :
    providerStats[id].errorCount >= ErrorThreshold
      => "disabledUntil" \in DOMAIN providerStats[id]

\* ---- C10 ----------------------------------------------------------------
\* C10: a failed attempt adds exactly 1 to the candidate's errorCount and
\* sets its lastUsed to the current time.
C10_FailureRecord ==
  [][ (AttemptStep /\ ~allAttempts'[Len(allAttempts')].success)
      => LET id == sortedProviders[i + 1].id IN
         /\ providerStats'[id].errorCount =
              StatsOrDefault(providerStats, id).errorCount + 1
         /\ providerStats'[id].lastUsed = now ]_vars

\* ---- C11 ----------------------------------------------------------------
\* C11: a successful attempt stores for its candidate the record
\* {lastUsed: now, errorCount: 0} and nothing else (no disable window),
\* whatever the previous record was, and touches no other record.
C11_SuccessRecord ==
  [][ (AttemptStep /\ allAttempts'[Len(allAttempts')].success)
      => LET id == sortedProviders[i + 1].id IN
         /\ providerStats'[id] = [lastUsed |-> now, errorCount |-> 0]
         /\ \A other \in (DOMAIN providerStats \cup DOMAIN providerStats') \ {id} :
              SameRecord(other) ]_vars

\* a success has overwritten a record whose errorCount had reached 3
C11_Witness ==
  /\ pc = "done"
  /\ result.success
  /\ \E id \in DOMAIN tripAt :
       /\ result.provider = sortedProviders[1].name
       /\ sortedProviders[1].id = id
       /\ sortedProviders[1].errorCount >= ErrorThreshold
       /\ providerStats[id] = [lastUsed |-> now, errorCount |-> 0]

\* ---- C12 ----------------------------------------------------------------
\* POST /api/generate, generate.ts:96-109: every request builds its own
\* ImageGenerator, hence its own APIManager with an empty providerStats,
\* and runs generateImageWithFallback on it up to the loop
onRequestPost ==
  /\ pc # "running"
  /\ providerStats' = <<>>
  /\ tripAt' = <<>>
  /\ LET providers == getAvailableProviders(envKey, adminConfig, <<>>) IN
     /\ allAttempts' = <<>>
     /\ lastError' = ""
     /\ adapterCalls' = 0
     /\ i' = 0
     /\ IF Len(providers) = 0
        THEN /\ sortedProviders' = <<>>
             /\ pc' = "done"
             /\ result' = SystemErrorResult(NoProvidersMsg, <<>>)
        ELSE /\ sortedProviders' = sortProviders(providers)
             /\ pc' = "running"
             /\ result' = NoResult
  /\ UNCHANGED <<extVars, lastOp, envKey, adminConfig, now, up>>

NextRequest ==
  \/ onRequestPost
  \/ AttemptSuccess
  \/ AttemptFailure
  \/ Tick
  \/ BackendFlip

\* the process as the request handler drives it
SpecRequest == Init /\ [][NextRequest]_vars

\* C12: the health records are process-wide: the ranking of a call reads the
\* records that the earlier calls of the process left behind.
C12_HealthIsProcessWide ==
  [][ StartStep
      => sortedProviders' =
           sortProviders(getAvailableProviders(envKey, adminConfig, providerStats)) ]_vars

\* ---- C13 ----------------------------------------------------------------
\* Several calls of generateImageWithFallback in flight on one
\* ImageGenerator.  A call gives way to the others only at an await
\* (getAvailableProviders, tryProvider, the two awaits of the catch block);
\* updateProviderStats holds no await, so its read and its write of
\* providerStats are one step.  In this specification the variables of a
\* call (pc, sortedProviders, i, allAttempts, lastError, result,
\* adapterCalls) hold one value per call.
Calls == 1..MaxCalls

\* the stored entries of this specification: a working one, one without a
\* priority and one that tryProvider refuses
ConcPool == { config \in ConfigPool : config.name \in {"A", "B", "C"} }

InitConc ==
  /\ envKey \in BOOLEAN
  /\ adminConfig \in SeqsUpTo(ConcPool, MaxAdmin)
  /\ DistinctNames(adminConfig)
  /\ providerStats = <<>>
  /\ now = 30000
  /\ up \in SUBSET { ps.id : ps \in
        { getAvailableProviders(envKey, adminConfig, <<>>)[k] :
            k \in 1..Len(getAvailableProviders(envKey, adminConfig, <<>>)) } }
  /\ pc = [c \in Calls |-> "idle"]
  /\ sortedProviders = [c \in Calls |-> <<>>]
  /\ i = [c \in Calls |-> 0]
  /\ allAttempts = [c \in Calls |-> <<>>]
  /\ lastError = [c \in Calls |-> ""]
  /\ result = [c \in Calls |-> NoResult]
  /\ adapterCalls = [c \in Calls |-> 0]
  /\ tripAt = <<>>
  /\ lastOp = NoOp
  /\ options = NoOptions
  /\ silent = {}
  /\ inFlight = {}
  /\ pending = {}
  /\ httpResponse = NoResponse
  /\ stored = "list"
  /\ embedded = 0

\* generateImageWithFallback up to the first await of tryProvider
ConcStart(c) ==
  /\ pc[c] = "idle"
  /\ LET providers == getAvailableProviders(envKey, adminConfig, providerStats) IN
     /\ allAttempts' = [allAttempts EXCEPT ![c] = <<>>]
     /\ lastError' = [lastError EXCEPT ![c] = ""]
     /\ adapterCalls' = [adapterCalls EXCEPT ![c] = 0]
     /\ i' = [i EXCEPT ![c] = 0]
     /\ IF Len(providers) = 0
        THEN /\ sortedProviders' = [sortedProviders EXCEPT ![c] = <<>>]
             /\ pc' = [pc EXCEPT ![c] = "done"]
             /\ result' = [result EXCEPT
                             ![c] = SystemErrorResult(NoProvidersMsg, <<>>)]
        ELSE /\ sortedProviders' = [sortedProviders EXCEPT
                                      ![c] = sortProviders(providers)]
             /\ pc' = [pc EXCEPT ![c] = "running"]
             /\ result' = [result EXCEPT ![c] = NoResult]
  /\ UNCHANGED <<extVars, lastOp, envKey, adminConfig, providerStats, now, up, tripAt>>

\* tryProvider resolves: lines 77-99
ConcAttemptSuccess(c) ==
  /\ pc[c] = "running"
  /\ i[c] < Len(sortedProviders[c])
  /\ LET provider == sortedProviders[c][i[c] + 1] IN
     /\ Preflight(provider) = ""
     /\ provider.id \in up
     /\ adapterCalls' = [adapterCalls EXCEPT ![c] = @ + 1]
     /\ allAttempts' = [allAttempts EXCEPT
                          ![c] = Append(@, Attempt(provider, TRUE, ""))]
     /\ providerStats' = updateProviderStats(providerStats, provider.id, TRUE, now)
     /\ result' = [result EXCEPT ![c] = SuccessResult(provider, allAttempts'[c])]
     /\ pc' = [pc EXCEPT ![c] = "done"]
  /\ UNCHANGED <<extVars, lastOp, envKey, adminConfig, now, up, sortedProviders, i,
                 lastError, tripAt>>

\* ConcAttemptFailure that writes the count it read when the call ranked
\* its candidates, not the count the map holds now
ConcAttemptFailure_staleRead(c) ==
  /\ pc[c] = "running"
  /\ i[c] < Len(sortedProviders[c])
  /\ LET provider == sortedProviders[c][i[c] + 1]
         pre == Preflight(provider)
     IN
     /\ pre = "" => provider.id \notin up
     /\ adapterCalls' = [adapterCalls EXCEPT
                           ![c] = IF pre = "" THEN @ + 1 ELSE @]
     /\ \E err \in (IF pre = "" THEN AdapterErrors ELSE {pre}) :
          LET stats1 == MapSet(providerStats, provider.id,
                               [lastUsed |-> OrZero(provider.lastUsed),
                                errorCount |-> provider.errorCount + 1])
          IN
          /\ lastError' = [lastError EXCEPT ![c] = err]
          /\ allAttempts' = [allAttempts EXCEPT
                               ![c] = Append(@, Attempt(provider, FALSE, err))]
          /\ tripAt' = IF stats1[provider.id].errorCount = ErrorThreshold
                       THEN MapSet(tripAt, provider.id, now) ELSE tripAt
          /\ providerStats' = stats1
          /\ i' = i
          /\ pc' = [pc EXCEPT ![c] = "done"]
          /\ result' = [result EXCEPT
                          ![c] = SystemErrorResult(NotAFunctionMsg, allAttempts'[c])]
  /\ UNCHANGED <<extVars, lastOp, envKey, adminConfig, now, up, sortedProviders>>

\* tryProvider rejects: lines 101-162
ConcAttemptFailure(c) ==
  /\ pc[c] = "running"
  /\ i[c] < Len(sortedProviders[c])
  /\ LET provider == sortedProviders[c][i[c] + 1]
         pre == Preflight(provider)
     IN
     /\ pre = "" => provider.id \notin up
     /\ adapterCalls' = [adapterCalls EXCEPT
                           ![c] = IF pre = "" THEN @ + 1 ELSE @]
     /\ \E err \in (IF pre = "" THEN AdapterErrors ELSE {pre}) :
          LET stats1 == updateProviderStats(providerStats, provider.id, FALSE, now)
              d == temporarilyDisableProvider(stats1, provider.id, DisableMs, now)
          IN
          /\ lastError' = [lastError EXCEPT ![c] = err]
          /\ allAttempts' = [allAttempts EXCEPT
                               ![c] = Append(@, Attempt(provider, FALSE, err))]
          /\ tripAt' = IF stats1[provider.id].errorCount = ErrorThreshold
                       THEN MapSet(tripAt, provider.id, now) ELSE tripAt
          /\ IF d.threw
             THEN /\ providerStats' = stats1
                  /\ i' = i
                  /\ pc' = [pc EXCEPT ![c] = "done"]
                  /\ result' = [result EXCEPT
                        ![c] = SystemErrorResult(NotAFunctionMsg, allAttempts'[c])]
             ELSE /\ providerStats' = d.stats
                  /\ i' = [i EXCEPT ![c] = @ + 1]
                  /\ IF i[c] + 1 < Len(sortedProviders[c])
                     THEN /\ pc' = [pc EXCEPT ![c] = "running"]
                          /\ result' = result
                     ELSE /\ pc' = [pc EXCEPT ![c] = "done"]
                          /\ result' = [result EXCEPT
                                ![c] = AllFailedResult(err, allAttempts'[c])]
  /\ UNCHANGED <<extVars, lastOp, envKey, adminConfig, now, up, sortedProviders>>

\* a backend starts or stops answering with an image
ConcBackendFlip ==
  /\ \E id \in CandidateIds :
       up' = IF id \in up THEN up \ {id} ELSE up \cup {id}
  /\ UNCHANGED <<extVars, lastOp, envKey, adminConfig, providerStats, now, tripAt, callVars>>

NextConc ==
  \/ \E c \in Calls : ConcStart(c)
  \/ \E c \in Calls : ConcAttemptSuccess(c)
  \/ \E c \in Calls : ConcAttemptFailure(c)
  \/ Tick
  \/ ConcBackendFlip

SpecConc == InitConc /\ [][NextConc]_vars

\* the candidates the calls have ranked
Ranked == UNION { { sortedProviders[c][k] : k \in DOMAIN sortedProviders[c] } : c \in Calls }

\* the calls whose trace holds an entry of the given outcome for the provider
CallsWith(name, ok) ==
  { c \in Calls : \E k \in DOMAIN allAttempts[c] :
       /\ allAttempts[c][k].provider = name
       /\ allAttempts[c][k].success = ok }

\* the step is one loop iteration of call c
ConcAttemptStep(c) ==
  pc[c] = "running" /\ Len(allAttempts'[c]) = Len(allAttempts[c]) + 1

\* C13: under every interleaving of concurrent calls the update of a
\* record is atomic: each recorded failure adds 1 to the count the record
\* holds at that moment and each recorded success stores {now, 0}, so no
\* increment is lost (N concurrent failures and no success leave the count
\* at N) and a success next to failures leaves a record that one of the
\* sequential orders leaves.
C13_AtomicUpdates ==
  /\ [][ \A c \in Calls : ConcAttemptStep(c)
           => LET id == sortedProviders[c][i[c] + 1].id IN
              /\ providerStats'[id] =
                   IF allAttempts'[c][Len(allAttempts'[c])].success
                   THEN [lastUsed |-> now, errorCount |-> 0]
                   ELSE [lastUsed |-> StatsOrDefault(providerStats, id).lastUsed,
                         errorCount |->
                           StatsOrDefault(providerStats, id).errorCount + 1]
              /\ \A other \in (DOMAIN providerStats \cup DOMAIN providerStats') \ {id} :
                   SameRecord(other) ]_vars
  /\ [] \A p \in Ranked :
          LET failed == Cardinality(CallsWith(p.name, FALSE))
              rec == StatsOrDefault(providerStats, p.id)
          IN
          IF CallsWith(p.name, TRUE) = {}
          THEN rec.errorCount = failed
          ELSE rec.errorCount <= failed /\ rec.lastUsed > 0

\* two calls ranked the same candidate before either recorded anything and
\* both recorded a failure for it
C13_Witness ==
  \E p \in Ranked :
    /\ \A c \in Calls :
         /\ pc[c] = "done"
         /\ sortedProviders[c][1].id = p.id
         /\ sortedProviders[c][1].errorCount = 0
    /\ CallsWith(p.name, FALSE) = Calls
    /\ providerStats[p.id].errorCount = MaxCalls

\* ---- administrative surface of the health records -----------------------
\* The operations are taken between the calls of the generator.
\* APIManager.resetProviderError
resetProviderError_dropLastUsed(stats, providerId) ==
  MapSet(stats, providerId, [lastUsed |-> 0, errorCount |-> 0])

resetProviderError(stats, providerId) ==
  LET current == StatsOrDefault(stats, providerId) IN
  MapSet(stats, providerId, [lastUsed |-> current.lastUsed, errorCount |-> 0])

\* APIManager.cleanupStats at time t
cleanupStats(stats, t) ==
  [providerId \in DOMAIN stats |->
     IF stats[providerId].errorCount > 0
        /\ (t - stats[providerId].lastUsed) > resetThreshold
     THEN [lastUsed |-> stats[providerId].lastUsed, errorCount |-> 0]
     ELSE stats[providerId]]

Op(name, arg, status) ==
  [op |-> name, arg |-> arg, status |-> status, seq |-> lastOp.seq + 1]

\* Date.now() lies far more than 30 minutes after the epoch
HealthStart == resetThreshold + 30000

\* the stored entries of SpecHealth: a working one and one that tryProvider
\* refuses
HealthPool == { config \in ConfigPool : config.name \in {"A", "C"} }

\* the stored entries of SpecResetAPI: two of equal priority that
\* tryProvider refuses
ResetPool == { config \in ConfigPool : config.name \in {"C", "D"} }

\* a new ImageGenerator at time t over entries of the given pool
InitWith(pool, t) ==
  /\ envKey \in BOOLEAN
  /\ adminConfig \in SeqsUpTo(pool, MaxAdmin)
  /\ DistinctNames(adminConfig)
  /\ providerStats = <<>>
  /\ now = t
  /\ up \in SUBSET { ps.id : ps \in
        { getAvailableProviders(envKey, adminConfig, <<>>)[k] :
            k \in 1..Len(getAvailableProviders(envKey, adminConfig, <<>>)) } }
  /\ pc = "idle"
  /\ sortedProviders = <<>>
  /\ i = 0
  /\ allAttempts = <<>>
  /\ lastError = ""
  /\ result = NoResult
  /\ adapterCalls = 0
  /\ tripAt = <<>>
  /\ lastOp = NoOp
  /\ options = NoOptions
  /\ silent = {}
  /\ inFlight = {}
  /\ pending = {}
  /\ httpResponse = NoResponse
  /\ stored = "list"
  /\ embedded = 0

InitHealth == InitWith(HealthPool, HealthStart)

InitResetAPI == InitWith(ResetPool, HealthStart)

TickHealth ==
  /\ \E d \in TickSteps : now + d <= resetThreshold + MaxTime /\ now' = now + d
  /\ UNCHANGED <<extVars, lastOp, envKey, adminConfig, providerStats, up, tripAt, callVars>>

\* apiManager.resetProviderError(id) on the generator's APIManager
ResetProviderError ==
  /\ pc # "running"
  /\ lastOp.seq < MaxOps
  /\ \E id \in CandidateIds :
       /\ providerStats' = resetProviderError(providerStats, id)
       /\ lastOp' = Op("resetProviderError", id, 0)
  /\ UNCHANGED <<extVars, envKey, adminConfig, now, up, tripAt, callVars>>

\* apiManager.cleanupStats() on the generator's APIManager
CleanupStats ==
  /\ pc # "running"
  /\ lastOp.seq < MaxOps
  /\ providerStats' = cleanupStats(providerStats, now)
  /\ lastOp' = Op("cleanupStats", <<>>, 0)
  /\ UNCHANGED <<extVars, envKey, adminConfig, now, up, tripAt, callVars>>

ResetNames == {"", "C", "D", "Z"}

\* POST /api/admin/reset-api: the handler resets the id `${provider}-${name}`
\* in an APIManager it has just built and then drops; the generator's
\* APIManager is not touched
handleResetAPI ==
  /\ pc # "running"
  /\ lastOp.seq < MaxOps
  /\ \E name \in ResetNames :
       LET found == { k \in 1..Len(adminConfig) : adminConfig[k].name = name } IN
       IF name = ""
       THEN lastOp' = Op("handleResetAPI", <<name>>, 400)
       ELSE IF found = {}
       THEN lastOp' = Op("handleResetAPI", <<name>>, 404)
       ELSE LET config == adminConfig[CHOOSE k \in found : TRUE]
                providerId == <<config.provider, config.name>>
                apiManager == resetProviderError(<<>>, providerId)
            IN  /\ apiManager[providerId].errorCount = 0
                /\ lastOp' = Op("handleResetAPI", <<name>>, 200)
  /\ UNCHANGED <<extVars, envKey, adminConfig, providerStats, now, up, tripAt, callVars>>

NextHealth ==
  \/ NewImageGenerator
  \/ GenerateStart
  \/ AttemptSuccess
  \/ AttemptFailure
  \/ TickHealth
  \/ BackendFlip
  \/ ResetProviderError
  \/ CleanupStats

SpecHealth == InitHealth /\ [][NextHealth]_vars

NextResetAPI ==
  \/ NewImageGenerator
  \/ GenerateStart
  \/ AttemptSuccess
  \/ AttemptFailure
  \/ TickHealth
  \/ BackendFlip
  \/ handleResetAPI

\* the generator next to the reset handler of the admin API
SpecResetAPI == InitResetAPI /\ [][NextResetAPI]_vars

\* the step is the administrative operation of the given name
OpStep(name) == lastOp' # lastOp /\ lastOp'.op = name

\* ---- C14 ----------------------------------------------------------------
\* C14: resetProviderError(id) sets the errorCount of id to 0, leaves its
\* lastUsed as it was, leaves the record without a disable window and
\* leaves the record of every other id unchanged.
C14_ResetRecord ==
  [][ OpStep("resetProviderError")
      => LET id == lastOp'.arg IN
         /\ providerStats'[id] =
              [lastUsed |-> StatsOrDefault(providerStats, id).lastUsed,
               errorCount |-> 0]
         /\ \A other \in (DOMAIN providerStats \cup DOMAIN providerStats') \ {id} :
              SameRecord(other) ]_vars

\* a reset has cleared a count of 3 or more on a record that holds the time
\* of a success, next to another record
C14_Witness ==
  /\ lastOp.op = "resetProviderError"
  /\ lastOp.arg \in DOMAIN tripAt
  /\ providerStats[lastOp.arg].errorCount = 0
  /\ providerStats[lastOp.arg].lastUsed > 0
  /\ DOMAIN providerStats # {lastOp.arg}

\* ---- C15 ----------------------------------------------------------------
\* the index of the stored entry of the given name
IndexOf(name) == CHOOSE k \in 1..Len(adminConfig) : adminConfig[k].name = name

\* the ids in the order in which a call started in the given health state
\* attempts them
Ranking(stats) ==
  LET ranked == sortProviders(getAvailableProviders(envKey, adminConfig, stats))
  IN  [k \in 1..Len(ranked) |-> ranked[k].id]

\* C15: after a successful admin reset of a configured provider whose
\* errorCount is 3 or more, the very next call attempts the candidates in
\* the order in which the provider counts as one whose errors are cleared.
C15_ResetMakesEligible ==
  [][ (OpStep("handleResetAPI") /\ lastOp'.status = 200)
      => LET k == IndexOf(lastOp'.arg[1])
             id == ProviderId(adminConfig[k], k - 1)
         IN  StatsOrDefault(providerStats, id).errorCount >= ErrorThreshold
               => Ranking(providerStats') =
                    Ranking(resetProviderError(providerStats, id)) ]_vars

\* ---- C16 ----------------------------------------------------------------
\* the step is a sweep of the health records
SweepStep == OpStep("cleanupStats")

\* C16: the sweep never changes a lastUsed, and a record whose errorCount is
\* 3 or more and whose most recent failure is less than 30 minutes old keeps
\* its errorCount.
C16_SweepKeepsRecentFailures ==
  [][ SweepStep
      => \A id \in DOMAIN providerStats :
           /\ providerStats'[id].lastUsed = providerStats[id].lastUsed
           /\ ( /\ id \in DOMAIN tripAt
                /\ providerStats[id].errorCount >= ErrorThreshold
                /\ now - tripAt[id] < resetThreshold )
              => providerStats'[id].errorCount = providerStats[id].errorCount ]_vars

\* ---- C17 ----------------------------------------------------------------
\* C17: whenever the environment provider is a candidate it is ranked first
\* and attempted first, before every stored entry, whatever the priority
\* (1..10) and the health record of the entries and of the environment
\* provider.
C17_EnvFirst ==
  LET providers == getAvailableProviders(envKey, adminConfig, providerStats) IN
  (envKey /\ \A k \in 1..Len(providers) : providers[k].priority \in 1..10)
    => /\ providers[1].id = EnvId
       /\ pc # "idle" => sortedProviders[1].id = EnvId
       /\ Len(allAttempts) >= 1 => allAttempts[1].provider = EnvName

\* the environment provider has failed 3 times or more and is attempted
\* first again, before a healthy stored entry of priority 1
C17_Witness ==
  /\ envKey
  /\ pc = "done"
  /\ Len(allAttempts) >= 1
  /\ allAttempts[1].provider = EnvName
  /\ EnvId \in DOMAIN tripAt
  /\ providerStats[EnvId].errorCount > ErrorThreshold
  /\ \E k \in 2..Len(sortedProviders) :
       /\ sortedProviders[k].priority = EnvPriority
       /\ sortedProviders[k].errorCount = 0
       /\ Ok(sortedProviders[k])

\* ---- C18 ----------------------------------------------------------------
\* the stored entries of SpecRank: two working ones of equal priority
RankPool == { Cfg("A", "grok", TRUE, TRUE, TRUE, TRUE, 1),
              Cfg("G", "grok", TRUE, TRUE, TRUE, TRUE, 1) }

InitRank == InitWith(RankPool, 30000)

\* the generator over stored entries of equal priority
SpecRank == InitRank /\ [][Next]_vars

\* (priority, lastUsed, errorCount) of a before or equal to that of b
LexLeq(a, b) ==
  \/ a.priority < b.priority
  \/ /\ a.priority = b.priority
     /\ \/ OrZero(a.lastUsed) < OrZero(b.lastUsed)
        \/ /\ OrZero(a.lastUsed) = OrZero(b.lastUsed)
           /\ OrZero(a.errorCount) <= OrZero(b.errorCount)

\* C18: the candidates of a call are attempted in ascending lexicographic
\* order of (priority, lastUsed, errorCount).
C18_LexicographicOrder ==
  pc = "running" =>
    \A j, k \in Ranks : j < k => LexLeq(sortedProviders[j], sortedProviders[k])

\* ---- C19 ----------------------------------------------------------------
\* The ids as the strings the code builds: 'gemini-env' and
\* `${provider}-${name}-${index}`.  Strings are compared code unit by code
\* unit: the providers are ordered custom < gemini < grok < openai, the
\* names by their capital letter, and a capital letter comes before the
\* 'e' of 'gemini-env'.
ProviderOrder == <<"custom", "gemini", "grok", "openai">>
NameOrder == <<"A", "B", "C", "D", "E", "F", "G">>

RankIn(order, str) == CHOOSE k \in 1..Len(order) : order[k] = str

IdLess(a, b) ==
  LET pa == IF a = EnvId THEN "gemini" ELSE a[1]
      pb == IF b = EnvId THEN "gemini" ELSE b[1]
  IN  IF pa # pb THEN RankIn(ProviderOrder, pa) < RankIn(ProviderOrder, pb)
      ELSE IF a = EnvId THEN FALSE
      ELSE IF b = EnvId THEN TRUE
      ELSE IF a[2] # b[2] THEN RankIn(NameOrder, a[2]) < RankIn(NameOrder, b[2])
      ELSE a[3] < b[3]

\* equal in priority, lastUsed and errorCount
Tied(a, b) ==
  /\ a.priority = b.priority
  /\ OrZero(a.lastUsed) = OrZero(b.lastUsed)
  /\ OrZero(a.errorCount) = OrZero(b.errorCount)

\* the environment provider first, the stored entries by their index
StoredBefore(a, b) ==
  \/ a.id = EnvId /\ b.id # EnvId
  \/ a.id # EnvId /\ b.id # EnvId /\ a.id[3] < b.id[3]

\* C19 as claimed: two candidates equal in priority, lastUsed and errorCount
\* are ranked by ascending id, whatever the order in which their entries are
\* stored.
C19_TiesById ==
  LET providers == getAvailableProviders(envKey, adminConfig, providerStats) IN
  \A j, k \in 1..Len(providers) :
    (j < k /\ Tied(providers[j], providers[k]))
      => IdLess(providers[j].id, providers[k].id)

\* C19 as amended: two candidates equal in priority, lastUsed and errorCount
\* are ranked in the order in which they are stored, the environment
\* provider first, and a running call attempts them in that order.
C19_TiesByStoredOrder ==
  LET providers == getAvailableProviders(envKey, adminConfig, providerStats) IN
  /\ \A j, k \in 1..Len(providers) :
       (j < k /\ Tied(providers[j], providers[k]))
         => StoredBefore(providers[j], providers[k])
  /\ pc = "running" =>
       \A j, k \in Ranks :
         (j < k /\ Tied(sortedProviders[j], sortedProviders[k]))
           => StoredBefore(sortedProviders[j], sortedProviders[k])

\* a running call ranks two tied candidates in stored order against the
\* order of their ids
C19_Witness ==
  /\ pc = "running"
  /\ \E j, k \in Ranks :
       /\ j < k
       /\ Tied(sortedProviders[j], sortedProviders[k])
       /\ StoredBefore(sortedProviders[j], sortedProviders[k])
       /\ IdLess(sortedProviders[k].id, sortedProviders[j].id)

\* ---- C21 ----------------------------------------------------------------
\* generator.generateImageWithFallback(prompt, {excludeKeys, trace, signal})
\* as generate.ts:105-109 calls it.  The method declares the one parameter
\* prompt (image-generator.ts:33): the second argument is never read.  An
\* excluded key is named by the id of the descriptor that holds it.
GenerateStartWithOptions ==
  /\ pc # "running"
  /\ \A id \in DOMAIN providerStats : providerStats[id].errorCount < MaxErrors
  /\ \E excludeKeys \in SUBSET CandidateIds :
     \E signal \in {"undefined", "pending"} :
       options' = [excludeKeys |-> excludeKeys, signal |-> signal]
  /\ LET providers == getAvailableProviders(envKey, adminConfig, providerStats) IN
     /\ allAttempts' = <<>>
     /\ lastError' = ""
     /\ adapterCalls' = 0
     /\ i' = 0
     /\ IF Len(providers) = 0
        THEN /\ sortedProviders' = <<>>
             /\ pc' = "done"
             /\ result' = SystemErrorResult(NoProvidersMsg, <<>>)
        ELSE /\ sortedProviders' = sortProviders(providers)
             /\ pc' = "running"
             /\ result' = NoResult
  /\ UNCHANGED <<moreVars, silent, inFlight, lastOp, envKey, adminConfig, providerStats, now, up, tripAt>>

\* the caller aborts the AbortSignal it passed
Abort ==
  /\ pc = "running"
  /\ options.signal = "pending"
  /\ options' = [options EXCEPT !.signal = "aborted"]
  /\ UNCHANGED <<moreVars, silent, inFlight, lastOp, envKey, adminConfig, providerStats, now, up,
                 tripAt, callVars>>

InitOptions == InitWith(HealthPool, 30000)

NextOptions ==
  \/ GenerateStartWithOptions
  \/ AttemptSuccess
  \/ AttemptFailure
  \/ Abort
  \/ Tick
  \/ BackendFlip

\* the generator called with an exclusion set and an abort signal
SpecOptions == InitOptions /\ [][NextOptions]_vars

\* C21: a candidate whose id is in the exclusion set of the call is not
\* attempted in that call, has no entry in its trace and keeps its health
\* record.
C21_ExcludedNeverAttempted ==
  [][ pc = "running"
      => \A k \in Ranks :
           sortedProviders[k].id \in options.excludeKeys
             => /\ SameRecord(sortedProviders[k].id)
                /\ \A j \in DOMAIN allAttempts' :
                     allAttempts'[j].provider # sortedProviders[k].name ]_vars

\* ---- the admin API next to the generator ----------------------------------
\* String.prototype.toLowerCase on the provider names the requests carry
toLowerCase(s) ==
  IF s = "Grok" THEN "grok" ELSE IF s = "Custom" THEN "custom" ELSE s

\* the priorities a request body carries; Undefined stands for a body
\* without the field
PriorityInputs == {-3, 0, 12}

\* the limits of a stored priority
PriorityFloor == 1
PriorityCeiling == 10

\* Math.max(1, Math.min(10, priority))
ClampPriority(priority) ==
  LET lower == IF priority < PriorityCeiling THEN priority ELSE PriorityCeiling
  IN  IF lower > PriorityFloor THEN lower ELSE PriorityFloor

\* the bodies of the admin action 'add': name "" stands for a missing name,
\* apiKey FALSE for a missing key; the body of B names no baseUrl
AddBodies ==
  { [name |-> n, provider |-> IF n = "A" THEN "Grok" ELSE "custom",
     baseUrl |-> (n = "A"), apiKey |-> k, model |-> FALSE,
     priority |-> p, enabled |-> en] :
      n \in {"", "A", "B"}, k \in BOOLEAN,
      p \in PriorityInputs \cup {Undefined}, en \in BOOLEAN }

\* handleAddAPI without the clamp of the priority
handleAddAPI_noClamp(configs, body) ==
  LET priority == IF body.priority = Undefined THEN DefaultPriority
                  ELSE body.priority
  IN
  IF body.name = "" \/ body.provider = "" \/ ~body.apiKey
  THEN [status |-> 400, configs |-> configs]
  ELSE IF \E k \in 1..Len(configs) : configs[k].name = body.name
  THEN [status |-> 409, configs |-> configs]
  ELSE [status |-> 200,
        configs |-> Append(configs,
          Cfg(body.name, toLowerCase(body.provider), body.enabled, body.apiKey,
              body.baseUrl, TRUE, priority))]

\* handleAddAPI: the response status and the stored api_configs; the stored
\* model is never blank, getDefaultModel fills a missing one
handleAddAPI(configs, body) ==
  LET priority == IF body.priority = Undefined THEN DefaultPriority
                  ELSE body.priority
  IN
  IF body.name = "" \/ body.provider = "" \/ ~body.apiKey
  THEN [status |-> 400, configs |-> configs]
  ELSE IF \E k \in 1..Len(configs) : configs[k].name = body.name
  THEN [status |-> 409, configs |-> configs]
  ELSE [status |-> 200,
        configs |-> Append(configs,
          Cfg(body.name, toLowerCase(body.provider), body.enabled, body.apiKey,
              body.baseUrl, TRUE, ClampPriority(priority)))]

\* Object.assign(config, updates)
ObjectAssign(config, updates) ==
  [f \in DOMAIN config |-> IF f \in DOMAIN updates THEN updates[f] ELSE config[f]]

\* handleUpdateAPI with body {name, ...updates}
handleUpdateAPI(configs, name, updates) ==
  LET found == { k \in 1..Len(configs) : configs[k].name = name } IN
  IF name = ""
  THEN [status |-> 400, configs |-> configs]
  ELSE IF found = {}
  THEN [status |-> 404, configs |-> configs]
  ELSE LET configIndex == CHOOSE k \in found : \A j \in found : k <= j
           config == ObjectAssign(configs[configIndex], updates)
       IN  [status |-> 200,
            configs |-> [configs EXCEPT ![configIndex] =
                           [config EXCEPT !.priority = ClampPriority(config.priority)]]]

\* handleDeleteAPI: api_configs.splice(configIndex, 1)
handleDeleteAPI(configs, name) ==
  LET found == { k \in 1..Len(configs) : configs[k].name = name } IN
  IF name = ""
  THEN [status |-> 400, configs |-> configs]
  ELSE IF found = {}
  THEN [status |-> 404, configs |-> configs]
  ELSE LET configIndex == CHOOSE k \in found : \A j \in found : k <= j IN
       [status |-> 200,
        configs |-> [k \in 1..(Len(configs) - 1) |->
                       IF k < configIndex THEN configs[k] ELSE configs[k + 1]]]

\* what handleAddAPI has stored when it is asked once per body of a sequence
RECURSIVE StoredBy(_)
StoredBy(bodies) ==
  IF bodies = <<>> THEN <<>>
  ELSE handleAddAPI(StoredBy(SubSeq(bodies, 1, Len(bodies) - 1)),
                    bodies[Len(bodies)]).configs

AdminNames == {"", "A", "B", "Z"}

\* a new ImageGenerator over api_configs that handleAddAPI has stored;
\* GEMINI_API_KEY is not set
InitAdmin ==
  /\ envKey = FALSE
  /\ adminConfig \in { StoredBy(bodies) : bodies \in SeqsUpTo(AddBodies, MaxAdmin) }
  /\ providerStats = <<>>
  /\ now = 30000
  /\ up = {}
  /\ pc = "idle"
  /\ sortedProviders = <<>>
  /\ i = 0
  /\ allAttempts = <<>>
  /\ lastError = ""
  /\ result = NoResult
  /\ adapterCalls = 0
  /\ tripAt = <<>>
  /\ lastOp = NoOp
  /\ options = NoOptions
  /\ silent = {}
  /\ inFlight = {}
  /\ pending = {}
  /\ httpResponse = NoResponse
  /\ stored = "list"
  /\ embedded = 0

\* admin action 'add'
HandleAddAPI ==
  /\ pc # "running"
  /\ lastOp.seq < MaxOps
  /\ \E body \in AddBodies :
       LET r == handleAddAPI(adminConfig, body) IN
       /\ adminConfig' = r.configs
       /\ lastOp' = Op("handleAddAPI", <<body.name>>, r.status)
  /\ UNCHANGED <<extVars, envKey, providerStats, now, up, tripAt, callVars>>

\* admin action 'update' with a priority
HandleUpdateAPI ==
  /\ pc # "running"
  /\ lastOp.seq < MaxOps
  /\ \E name \in AdminNames : \E priority \in PriorityInputs :
       LET r == handleUpdateAPI(adminConfig, name, [priority |-> priority]) IN
       /\ adminConfig' = r.configs
       /\ lastOp' = Op("handleUpdateAPI", <<name, priority>>, r.status)
  /\ UNCHANGED <<extVars, envKey, providerStats, now, up, tripAt, callVars>>

\* admin action 'toggle': handleUpdateAPI(env, {name, enabled}); the
\* operation is recorded with the entry's enabled field before and after
HandleToggleAPI ==
  /\ pc # "running"
  /\ lastOp.seq < MaxOps
  /\ \E name \in AdminNames : \E enabled \in BOOLEAN :
       LET r == handleUpdateAPI(adminConfig, name, [enabled |-> enabled])
           was == \E k \in 1..Len(adminConfig) :
                    adminConfig[k].name = name /\ adminConfig[k].enabled
       IN
       /\ adminConfig' = r.configs
       /\ lastOp' = Op("handleToggleAPI", <<name, was, enabled>>, r.status)
  /\ UNCHANGED <<extVars, envKey, providerStats, now, up, tripAt, callVars>>

\* admin action 'delete'
HandleDeleteAPI ==
  /\ pc # "running"
  /\ lastOp.seq < MaxOps
  /\ \E name \in AdminNames :
       LET r == handleDeleteAPI(adminConfig, name) IN
       /\ adminConfig' = r.configs
       /\ lastOp' = Op("handleDeleteAPI", <<name>>, r.status)
  /\ UNCHANGED <<extVars, envKey, providerStats, now, up, tripAt, callVars>>

NextAdmin ==
  \/ onRequestPost
  \/ AttemptSuccess
  \/ AttemptFailure
  \/ BackendFlip
  \/ HandleAddAPI
  \/ HandleUpdateAPI
  \/ HandleToggleAPI
  \/ HandleDeleteAPI

\* the request handler next to the handlers that edit api_configs
SpecAdmin == InitAdmin /\ [][NextAdmin]_vars

\* ---- C22 ----------------------------------------------------------------
\* the stored entry of the given name is among the candidates of the call
Listed(name, list) ==
  \E j \in 1..Len(list) : list[j].type = "config" /\ list[j].name = name

\* C22: a stored entry with enabled = false is not in the candidate list of
\* a call and is not attempted; a toggle stores the enabled value it is
\* given and changes nothing else, and the next call lists the entries that
\* are enabled (and have a key) then, so an entry toggled off is omitted and
\* an entry toggled back on is listed again.
C22_DisabledNeverCandidate ==
  [][ /\ StartStep
        => \A k \in 1..Len(adminConfig) :
             Listed(adminConfig[k].name, sortedProviders')
               <=> (adminConfig[k].enabled /\ adminConfig[k].key)
      /\ AttemptStep
        => \A k \in 1..Len(adminConfig) :
             ~adminConfig[k].enabled
               => allAttempts'[Len(allAttempts')].provider # adminConfig[k].name
      /\ (OpStep("handleToggleAPI") /\ lastOp'.status = 200)
        => /\ Len(adminConfig') = Len(adminConfig)
           /\ \A k \in 1..Len(adminConfig) :
                IF adminConfig[k].name = lastOp'.arg[1]
                THEN adminConfig'[k] =
                       [adminConfig[k] EXCEPT !.enabled = lastOp'.arg[3]]
                ELSE adminConfig'[k] = adminConfig[k] ]_vars

\* a call that follows the toggle of A from disabled to enabled lists A and
\* omits another entry that is disabled
C22_Witness ==
  /\ pc = "running"
  /\ lastOp.op = "handleToggleAPI"
  /\ lastOp.status = 200
  /\ lastOp.arg = <<"A", FALSE, TRUE>>
  /\ Listed("A", sortedProviders)
  /\ \E k \in 1..Len(adminConfig) :
       ~adminConfig[k].enabled /\ ~Listed(adminConfig[k].name, sortedProviders)

\* ---- C23 ----------------------------------------------------------------
\* C23: a candidate with a key but without endpoint or model is attempted;
\* the attempt fails before any adapter is called, enters the trace as a
\* failed entry, raises the candidate's errorCount by exactly one, and the
\* loop goes on to the next candidate.
C23_PreflightFailureContinues ==
  [][ (/\ AttemptStep
       /\ validateProviderConfig(sortedProviders[i + 1])
            \in {"missing_baseUrl", "missing_model"})
      => LET provider == sortedProviders[i + 1] IN
         /\ adapterCalls' = adapterCalls
         /\ allAttempts'[Len(allAttempts')].provider = provider.name
         /\ ~allAttempts'[Len(allAttempts')].success
         /\ providerStats'[provider.id].errorCount
              = StatsOrDefault(providerStats, provider.id).errorCount + 1
         /\ i + 1 < Len(sortedProviders) => (pc' = "running" /\ i' = i + 1) ]_vars

\* ---- C24 ----------------------------------------------------------------
\* C24: whatever integer priorities the add and update requests carry,
\* every stored priority lies in 1..10, and a call ranks each stored entry
\* by its stored priority.
C24_StoredPriorityClamped ==
  [][ /\ \A k \in 1..Len(adminConfig) : adminConfig[k].priority \in PriorityFloor..PriorityCeiling
      /\ \A k \in 1..Len(adminConfig') : adminConfig'[k].priority \in PriorityFloor..PriorityCeiling
      /\ StartStep
        => /\ \A j \in 1..Len(sortedProviders') :
                \E k \in 1..Len(adminConfig) :
                  /\ adminConfig[k].name = sortedProviders'[j].name
                  /\ adminConfig[k].priority = sortedProviders'[j].priority
           /\ \A j, k \in 1..Len(sortedProviders') :
                j < k => sortedProviders'[j].priority <= sortedProviders'[k].priority
    ]_vars

\* a call after an update that asked for priority 12: the entry is stored
\* and ranked with priority 10, behind an entry of priority 1
C24_Witness ==
  /\ pc = "running"
  /\ lastOp.op = "handleUpdateAPI"
  /\ lastOp.status = 200
  /\ lastOp.arg[2] = 12
  /\ Len(sortedProviders) = 2
  /\ sortedProviders[1].priority = 1
  /\ sortedProviders[2].priority = 10
  /\ sortedProviders[2].name = lastOp.arg[1]

\* ---- C25 ----------------------------------------------------------------
\* C25: the trace of a call only grows, by one entry per attempt and at its
\* end; its k-th entry is the k-th candidate of the call's order; a call
\* that returns hands back the trace with every attempt made so far.
C25_TraceAppendOnly ==
  [][ pc = "running"
      => /\ \/ allAttempts' = allAttempts
            \/ /\ Len(allAttempts') = Len(allAttempts) + 1
               /\ SubSeq(allAttempts', 1, Len(allAttempts)) = allAttempts
         /\ Len(allAttempts') <= Len(sortedProviders)
         /\ \A k \in 1..Len(allAttempts') :
              allAttempts'[k].provider = sortedProviders[k].name
         /\ pc' = "done" => result'.attempts = allAttempts' ]_vars

\* a call over two candidates has returned a failure whose trace holds the
\* attempt on the first
C25_Witness ==
  /\ pc = "done"
  /\ ~result.success
  /\ Len(sortedProviders) >= 2
  /\ Len(result.attempts) = 1
  /\ result.attempts[1].provider = sortedProviders[1].name
  /\ ~result.attempts[1].success

\* ---- C26 ----------------------------------------------------------------
\* C26: once the caller's signal is aborted between two attempts the call
\* makes no further attempt: it calls no adapter, the entries it adds to the
\* trace are skipped ones, and it returns a failure of kind cancelled.
C26_CancelStopsAttempts ==
  [][ (pc = "running" /\ options.signal = "aborted")
      => /\ adapterCalls' = adapterCalls
         /\ \A k \in (Len(allAttempts) + 1)..Len(allAttempts') :
              allAttempts'[k].error = "skipped"
         /\ pc' = "done"
              => (~result'.success /\ result'.error.kind = "cancelled") ]_vars

\* ---- C27 ----------------------------------------------------------------
\* C27: a call changes the health record of no candidate but the one it
\* attempts in that step: building the candidate list changes no record,
\* and an attempt leaves the record of every other id as it was.
C27_OnlyAttemptedRecordsChange ==
  [][ /\ StartStep => providerStats' = providerStats
      /\ pc = "running"
        => IF AttemptStep
           THEN \A id \in DOMAIN providerStats \cup DOMAIN providerStats' :
                  id # sortedProviders[i + 1].id => SameRecord(id)
           ELSE providerStats' = providerStats ]_vars

\* a call has attempted its first candidate only, and a candidate it did not
\* attempt still holds the failure an earlier call recorded
C27_Witness ==
  /\ pc = "done"
  /\ Len(allAttempts) = 1
  /\ \E k \in 2..Len(sortedProviders) :
       /\ sortedProviders[k].id \in DOMAIN providerStats
       /\ providerStats[sortedProviders[k].id].errorCount > 0

\* ---- adapters that never respond -----------------------------------------
\* silent holds the ids whose backend accepts the request and never answers:
\* the adapter's `await fetch(...)` stays pending

\* a backend starts or stops answering at all
BackendStalls ==
  /\ pc # "running"
  /\ \E id \in CandidateIds :
       silent' = IF id \in silent THEN silent \ {id} ELSE silent \cup {id}
  /\ UNCHANGED <<moreVars, options, inFlight, lastOp, envKey, adminConfig, providerStats, now, up,
                 tripAt, callVars>>

\* tryProvider returns: the adapter was called and its backend answered
AnsweredAttemptSuccess ==
  /\ pc = "running"
  /\ i < Len(sortedProviders)
  /\ sortedProviders[i + 1].id \notin silent
  /\ AttemptSuccess

\* tryProvider throws: before the adapter is called, or after its backend
\* answered
AnsweredAttemptFailure ==
  /\ pc = "running"
  /\ i < Len(sortedProviders)
  /\ \/ Preflight(sortedProviders[i + 1]) # ""
     \/ sortedProviders[i + 1].id \notin silent
  /\ AttemptFailure

InitSilent == InitWith(HealthPool, 30000)

NextSilent ==
  \/ GenerateStart
  \/ AnsweredAttemptSuccess
  \/ AnsweredAttemptFailure
  \/ BackendFlip
  \/ BackendStalls

\* the continuation of an awaited attempt runs once the attempt has settled
SpecSilent ==
  /\ InitSilent
  /\ [][NextSilent]_vars
  /\ WF_vars(AnsweredAttemptSuccess)
  /\ WF_vars(AnsweredAttemptFailure)

\* ---- C28 ----------------------------------------------------------------
\* C28: every call terminates, also when an adapter never responds: a call
\* that is running eventually returns.
C28_EveryCallTerminates == (pc = "running") ~> (pc = "done")

\* ---- the attempt as two steps --------------------------------------------
\* BeginAttempt that does not await: the adapter of any later candidate is
\* called while earlier calls are pending
BeginAttempt_noAwait ==
  /\ pc = "running"
  /\ \E k \in (i + 1)..Len(sortedProviders) :
       /\ k \notin inFlight
       /\ Preflight(sortedProviders[k]) = ""
       /\ inFlight' = inFlight \cup {k}
  /\ UNCHANGED <<moreVars, options, silent, lastOp, envKey, adminConfig, providerStats,
                 now, up, tripAt, callVars>>

\* tryProvider calls the adapter and the loop awaits it: lines 76-77, 168-184
BeginAttempt ==
  /\ pc = "running"
  /\ i < Len(sortedProviders)
  /\ inFlight = {}
  /\ Preflight(sortedProviders[i + 1]) = ""
  /\ inFlight' = {i + 1}
  /\ UNCHANGED <<moreVars, options, silent, lastOp, envKey, adminConfig, providerStats,
                 now, up, tripAt, callVars>>

\* the awaited adapter call resolves: lines 79-99
SettleSuccess ==
  /\ pc = "running"
  /\ i + 1 \in inFlight
  /\ LET provider == sortedProviders[i + 1] IN
     /\ provider.id \in up
     /\ adapterCalls' = adapterCalls + 1
     /\ allAttempts' = Append(allAttempts, Attempt(provider, TRUE, ""))
     /\ providerStats' = updateProviderStats(providerStats, provider.id, TRUE, now)
     /\ result' = SuccessResult(provider, allAttempts')
     /\ pc' = "done"
  /\ inFlight' = {}
  /\ UNCHANGED <<moreVars, options, silent, lastOp, envKey, adminConfig, now, up,
                 sortedProviders, i, lastError, tripAt>>

\* tryProvider throws before it calls an adapter, or the awaited adapter
\* call rejects: lines 101-130
SettleFailure ==
  /\ pc = "running"
  /\ i < Len(sortedProviders)
  /\ LET provider == sortedProviders[i + 1]
         pre == Preflight(provider)
     IN
     /\ IF pre = "" THEN i + 1 \in inFlight /\ provider.id \notin up
        ELSE inFlight = {}
     /\ adapterCalls' = IF pre = "" THEN adapterCalls + 1 ELSE adapterCalls
     /\ \E err \in (IF pre = "" THEN AdapterErrors ELSE {pre}) :
          LET stats1 == updateProviderStats(providerStats, provider.id, FALSE, now)
              d == temporarilyDisableProvider(stats1, provider.id, DisableMs, now)
          IN
          /\ lastError' = err
          /\ allAttempts' = Append(allAttempts, Attempt(provider, FALSE, err))
          /\ tripAt' = IF stats1[provider.id].errorCount = ErrorThreshold
                       THEN MapSet(tripAt, provider.id, now) ELSE tripAt
          /\ IF d.threw
             THEN /\ providerStats' = stats1
                  /\ i' = i
                  /\ pc' = "done"
                  /\ result' = SystemErrorResult(NotAFunctionMsg, allAttempts')
             ELSE /\ providerStats' = d.stats
                  /\ i' = i + 1
                  /\ IF i + 1 < Len(sortedProviders)
                     THEN /\ pc' = "running"
                          /\ result' = result
                     ELSE /\ pc' = "done"
                          /\ result' = AllFailedResult(err, allAttempts')
  /\ inFlight' = {}
  /\ UNCHANGED <<moreVars, options, silent, lastOp, envKey, adminConfig, now, up,
                 sortedProviders>>

\* a backend starts or stops answering with an image, also while a call waits
BackendFlipAnyTime ==
  /\ \E id \in CandidateIds :
       up' = IF id \in up THEN up \ {id} ELSE up \cup {id}
  /\ UNCHANGED <<extVars, lastOp, envKey, adminConfig, providerStats, now, tripAt, callVars>>

InitSequential == InitWith(HealthPool, 30000)

NextSequential ==
  \/ GenerateStart
  \/ BeginAttempt
  \/ SettleSuccess
  \/ SettleFailure
  \/ BackendFlipAnyTime

\* the call with the start and the end of an attempt as separate steps
SpecSequential == InitSequential /\ [][NextSequential]_vars

\* ---- C29 ----------------------------------------------------------------
\* C29: the attempts of a call are strictly sequential: at most one adapter
\* call is pending, and it is the one of the first candidate without a trace
\* entry; an attempt begins only when every attempt before it has finished
\* and is in the trace.
C29_AttemptsSequential ==
  [][ /\ Cardinality(inFlight') <= 1
      /\ \A k \in inFlight' : k = Len(allAttempts') + 1
      /\ (inFlight' # inFlight /\ inFlight' # {})
           => (inFlight = {} /\ allAttempts' = allAttempts) ]_vars

\* the adapter call of the first of two candidates is pending and the second
\* has not been started
C29_Witness ==
  /\ pc = "running"
  /\ inFlight = {1}
  /\ Len(sortedProviders) >= 2
  /\ allAttempts = <<>>

\* ---- C30 ----------------------------------------------------------------
\* C30: a stored entry keeps its id when other entries are added, deleted
\* or changed: an entry that an admin operation on another name leaves in
\* the store has the same id after the operation as before.
C30_StableIds ==
  [][ lastOp' # lastOp
      => \A a \in 1..Len(adminConfig) : \A b \in 1..Len(adminConfig') :
           (/\ adminConfig[a].name = adminConfig'[b].name
            /\ adminConfig[a].name # lastOp'.arg[1])
             => ProviderId(adminConfig'[b], b - 1) = ProviderId(adminConfig[a], a - 1)
    ]_vars

\* ---- what a failed adapter call puts in the error ------------------------
\* a backend's answer to an adapter that produced no image: HTTP ok or not,
\* the length of the body, whether the body parses as JSON with a message
\* field, and the length of that message
Responses ==
  { [ok |-> ok, length |-> n, json |-> j, message |-> m] :
      ok \in BOOLEAN, n \in {0, DumpPrefix, DumpPrefix + 1, MaxBody},
      j \in BOOLEAN, m \in {0, DumpPrefix + 1} } 

\* the number of characters of the response body in the Error message the
\* adapter throws. GeminiModel, GeminiAdvanced (also used by tryCustom):
\* `... API Failed: ${response.status} - ${txt}`; GrokAPI: the message field
\* of a JSON body, else ` - ${errorText}`; an ok response without image is
\* reported by a fixed message, its dump goes to the console only
AdapterMessageBody(provider, response) ==
  IF response.ok THEN 0
  ELSE IF provider.provider = "grok" /\ response.json /\ response.message > 0
       THEN (IF response.message <= response.length THEN response.message
             ELSE response.length)
       ELSE response.length

\* one loop iteration whose tryProvider throws, with the backend's answer:
\* attempt.error = error.message (line 104)
AttemptFailureHttp ==
  /\ pc = "running"
  /\ i < Len(sortedProviders)
  /\ LET provider == sortedProviders[i + 1]
         pre == Preflight(provider)
     IN
     /\ pre = "" => provider.id \notin up
     /\ adapterCalls' = IF pre = "" THEN adapterCalls + 1 ELSE adapterCalls
     /\ IF pre = "" THEN \E response \in Responses :
                           embedded' = AdapterMessageBody(provider, response)
        ELSE embedded' = 0
     /\ \E err \in (IF pre = "" THEN AdapterErrors ELSE {pre}) :
          LET stats1 == updateProviderStats(providerStats, provider.id, FALSE, now)
              d == temporarilyDisableProvider(stats1, provider.id, DisableMs, now)
          IN
          /\ lastError' = err
          /\ allAttempts' = Append(allAttempts, Attempt(provider, FALSE, err))
          /\ tripAt' = IF stats1[provider.id].errorCount = ErrorThreshold
                       THEN MapSet(tripAt, provider.id, now) ELSE tripAt
          /\ IF d.threw
             THEN /\ providerStats' = stats1
                  /\ i' = i
                  /\ pc' = "done"
                  /\ result' = SystemErrorResult(NotAFunctionMsg, allAttempts')
             ELSE /\ providerStats' = d.stats
                  /\ i' = i + 1
                  /\ IF i + 1 < Len(sortedProviders)
                     THEN /\ pc' = "running"
                          /\ result' = result
                     ELSE /\ pc' = "done"
                          /\ result' = AllFailedResult(err, allAttempts')
  /\ UNCHANGED <<stored, answerVars,
                 options, silent, inFlight, lastOp, envKey, adminConfig, now, up,
                 sortedProviders>>

InitAdapter == InitWith(HealthPool, 30000)

NextAdapter ==
  \/ GenerateStart
  \/ AttemptSuccess
  \/ AttemptFailureHttp
  \/ BackendFlip

\* the call with the backend's answer to a failed adapter call
SpecAdapter == InitAdapter /\ [][NextAdapter]_vars

\* ---- C31 ----------------------------------------------------------------
\* C31: the error that a failed attempt puts in the trace holds at most the
\* first 200 characters of the backend's response body, whatever adapter
\* made the call.
C31_ErrorBodyTruncated ==
  [][ (AttemptStep /\ ~allAttempts'[Len(allAttempts')].success)
      => embedded' <= DumpPrefix ]_vars

\* ---- the shapes of the stored record -------------------------------------
\* stored = "null": ADMIN_KV.get('admin_config') returns null;
\* stored = "noList": a record with credentials and without api_configs;
\* stored = "list": a record whose api_configs is adminConfig
StoreShapes == {"null", "noList", "list"}

\* readAdminConfig that throws on a missing record
readAdminConfig_throwsOnNull(shape, configs) ==
  IF shape = "null" THEN [threw |-> TRUE, configs |-> <<>>]
  ELSE IF shape = "list" THEN [threw |-> FALSE, configs |-> configs]
  ELSE [threw |-> FALSE, configs |-> <<>>]

\* api-manager.ts:75-101: the entries getAvailableProviders iterates over;
\* a null string and a record without an api_configs array add nothing, and
\* the try/catch keeps every exception of this part inside
readAdminConfig(shape, configs) ==
  IF shape = "list" THEN [threw |-> FALSE, configs |-> configs]
  ELSE [threw |-> FALSE, configs |-> <<>>]

\* POST /api/generate over the stored record: a new ImageGenerator, then
\* generateImageWithFallback up to the loop
onRequestPostStored ==
  /\ pc # "running"
  /\ providerStats' = <<>>
  /\ tripAt' = <<>>
  /\ LET read == readAdminConfig(stored, adminConfig)
         providers == getAvailableProviders(envKey, read.configs, <<>>)
     IN
     /\ allAttempts' = <<>>
     /\ lastError' = ""
     /\ adapterCalls' = 0
     /\ i' = 0
     /\ IF read.threw
        THEN /\ sortedProviders' = <<>>
             /\ pc' = "done"
             /\ result' = SystemErrorResult("admin_config unreadable", <<>>)
        ELSE IF Len(providers) = 0
        THEN /\ sortedProviders' = <<>>
             /\ pc' = "done"
             /\ result' = SystemErrorResult(NoProvidersMsg, <<>>)
        ELSE /\ sortedProviders' = sortProviders(providers)
             /\ pc' = "running"
             /\ result' = NoResult
  /\ UNCHANGED <<extVars, lastOp, envKey, adminConfig, now, up>>

\* admin action 'add' behind validateAdminToken, over every shape of the
\* stored record. Without a record no token is valid (part_000:104-108).
\* With a record that has no api_configs, `adminConfig.api_configs &&
\* findIndex(...)` is undefined, and undefined !== -1
HandleAddAPIStored ==
  /\ pc # "running"
  /\ lastOp.seq < MaxOps
  /\ \E body \in AddBodies :
       IF stored = "null"
       THEN /\ lastOp' = Op("handleAddAPI", <<body.name>>, 401)
            /\ UNCHANGED <<adminConfig, stored>>
       ELSE IF body.name = "" \/ body.provider = "" \/ ~body.apiKey
       THEN /\ lastOp' = Op("handleAddAPI", <<body.name>>, 400)
            /\ UNCHANGED <<adminConfig, stored>>
       ELSE IF stored = "noList"
       THEN /\ lastOp' = Op("handleAddAPI", <<body.name>>, 409)
            /\ UNCHANGED <<adminConfig, stored>>
       ELSE LET r == handleAddAPI(adminConfig, body) IN
            /\ adminConfig' = r.configs
            /\ stored' = "list"
            /\ lastOp' = Op("handleAddAPI", <<body.name>>, r.status)
  /\ UNCHANGED <<answerVars,
                 embedded, options, silent, inFlight, envKey, providerStats, now,
                 up, tripAt, callVars>>

\* a new ImageGenerator over any shape of the stored record
InitStored ==
  /\ envKey \in BOOLEAN
  /\ stored \in StoreShapes
  /\ adminConfig \in { StoredBy(bodies) : bodies \in SeqsUpTo(AddBodies, MaxAdmin) }
  /\ stored # "list" => adminConfig = <<>>
  /\ providerStats = <<>>
  /\ now = 30000
  /\ up = {}
  /\ pc = "idle"
  /\ sortedProviders = <<>>
  /\ i = 0
  /\ allAttempts = <<>>
  /\ lastError = ""
  /\ result = NoResult
  /\ adapterCalls = 0
  /\ tripAt = <<>>
  /\ lastOp = NoOp
  /\ options = NoOptions
  /\ silent = {}
  /\ inFlight = {}
  /\ pending = {}
  /\ httpResponse = NoResponse
  /\ embedded = 0

NextStored ==
  \/ onRequestPostStored
  \/ AttemptSuccess
  \/ AttemptFailure
  \/ BackendFlip
  \/ HandleAddAPIStored

\* the request handler and the add handler over every shape of the stored
\* record
SpecStored == InitStored /\ [][NextStored]_vars

\* ---- C32 ----------------------------------------------------------------
\* C32: with no stored admin configuration the candidate list is built
\* without an error from no stored entry: it is exactly the environment
\* provider when GEMINI_API_KEY is set, and empty otherwise.
C32_AbsentConfigIsEmpty ==
  [][ (StartStep /\ stored = "null")
      => /\ ~Mentions(result'.error, "admin_config unreadable")
         /\ IF envKey
            THEN /\ sortedProviders' = <<EnvProvider>>
                 /\ pc' = "running"
            ELSE /\ sortedProviders' = <<>>
                 /\ result' = SystemErrorResult(NoProvidersMsg, <<>>) ]_vars

\* a call over a missing record runs with the environment provider alone
C32_Witness ==
  /\ stored = "null"
  /\ envKey
  /\ pc = "running"
  /\ sortedProviders = <<EnvProvider>>

\* ---- the status and selection interface of APIManager --------------------
\* getProviderStatus with 'failed' only above three errors
getProviderStatus_aboveThree(provider) ==
  LET errorCount == OrZero(provider.errorCount) IN
  IF errorCount > ErrorThreshold THEN "failed"
  ELSE IF errorCount > 0 THEN "warning"
  ELSE "healthy"

\* APIManager.getProviderStatus
getProviderStatus(provider) ==
  LET errorCount == OrZero(provider.errorCount) IN
  IF errorCount >= ErrorThreshold THEN "failed"
  ELSE IF errorCount > 0 THEN "warning"
  ELSE "healthy"

\* APIManager.getProviderStatuses: one entry per available provider
getProviderStatuses(key, configs, stats) ==
  LET providers == getAvailableProviders(key, configs, stats) IN
  [k \in 1..Len(providers) |->
     [id |-> providers[k].id, name |-> providers[k].name,
      enabled |-> providers[k].enabled, priority |-> providers[k].priority,
      lastUsed |-> providers[k].lastUsed,
      errorCount |-> OrZero(providers[k].errorCount),
      status |-> getProviderStatus(providers[k])]]

\* the key of a provider; the providers of the model have distinct keys
KeyOf(provider) == provider.id

\* selectBestProvider without the filter on the error count
selectBestProvider_noErrorFilter(excludeKeys, key, configs, stats) ==
  LET providers == getAvailableProviders(key, configs, stats)
      Valid(provider) == /\ KeyOf(provider) \notin excludeKeys
                         /\ provider.enabled
      validProviders == SelectSeq(providers, Valid)
  IN  IF Len(validProviders) = 0 THEN <<>> ELSE <<validProviders[1]>>

\* APIManager.selectBestProvider(excludeKeys): <<>> stands for null
selectBestProvider(excludeKeys, key, configs, stats) ==
  LET providers == getAvailableProviders(key, configs, stats)
      Valid(provider) == /\ KeyOf(provider) \notin excludeKeys
                         /\ provider.enabled
                         /\ OrZero(provider.errorCount) < ErrorThreshold
      validProviders == SelectSeq(providers, Valid)
  IN  IF Len(validProviders) = 0 THEN <<>> ELSE <<validProviders[1]>>

\* apiManager.getProviderStatuses() on the generator's APIManager
GetProviderStatuses ==
  /\ pc # "running"
  /\ lastOp.seq < MaxOps
  /\ lastOp' = Op("getProviderStatuses",
                  getProviderStatuses(envKey, adminConfig, providerStats), 0)
  /\ UNCHANGED <<extVars, envKey, adminConfig, providerStats, now, up, tripAt, callVars>>

\* apiManager.selectBestProvider(excludeKeys) on the generator's APIManager
SelectBestProvider ==
  /\ pc # "running"
  /\ lastOp.seq < MaxOps
  /\ \E excludeKeys \in SUBSET CandidateIds :
       lastOp' = Op("selectBestProvider",
                    <<excludeKeys,
                      selectBestProvider(excludeKeys, envKey, adminConfig,
                                         providerStats)>>, 0)
  /\ UNCHANGED <<extVars, envKey, adminConfig, providerStats, now, up, tripAt, callVars>>

InitStatus == InitWith(ResetPool, 30000)

NextStatus ==
  \/ GenerateStart
  \/ AttemptSuccess
  \/ AttemptFailure
  \/ BackendFlip
  \/ GetProviderStatuses
  \/ SelectBestProvider

\* the generator next to the status and selection interface
SpecStatus == InitStatus /\ [][NextStatus]_vars

\* ---- C33 ----------------------------------------------------------------
\* C33: getProviderStatuses reports for every listed provider, the
\* environment one included, the errorCount and the lastUsed that
\* providerStats holds for its id at that time, and changes no record.
C33_StatusesMirrorTracker ==
  [][ OpStep("getProviderStatuses")
      => /\ providerStats' = providerStats
         /\ \A k \in 1..Len(lastOp'.arg) :
              LET entry == lastOp'.arg[k] IN
              /\ entry.errorCount = StatsOrDefault(providerStats, entry.id).errorCount
              /\ entry.lastUsed = IF entry.id \in DOMAIN providerStats
                                  THEN providerStats[entry.id].lastUsed
                                  ELSE Undefined ]_vars

\* ---- C34 ----------------------------------------------------------------
\* C34: a call attempts each candidate at most once and invokes the adapter
\* once per attempt: the candidates of a call have distinct ids, the trace
\* is never longer than the candidate list, there are never more adapter
\* invocations than trace entries, and a step raises no errorCount by more
\* than one.
C34_SingleAttemptPerCandidate ==
  [][ pc = "running"
      => /\ \A j, k \in 1..Len(sortedProviders) :
              sortedProviders[j].id = sortedProviders[k].id => j = k
         /\ Len(allAttempts') <= Len(sortedProviders)
         /\ adapterCalls' <= Len(allAttempts')
         /\ adapterCalls' <= adapterCalls + 1
         /\ \A id \in DOMAIN providerStats' :
              providerStats'[id].errorCount
                <= StatsOrDefault(providerStats, id).errorCount + 1 ]_vars

\* a call over two candidates has returned after one adapter invocation that
\* failed and left one more error on the candidate
C34_Witness ==
  /\ pc = "done"
  /\ Len(sortedProviders) >= 2
  /\ adapterCalls = 1
  /\ Len(allAttempts) = 1
  /\ ~allAttempts[1].success
  /\ providerStats[sortedProviders[1].id].errorCount >= 1

\* ---- C35 ----------------------------------------------------------------
\* onRequestPost up to its await of generateImageWithFallback, for a request
\* that arrives when the previous one has been answered:
\* src/functions/api/generate.ts:18-109
onRequestPostGenerate ==
  /\ pc = "idle" \/ httpResponse # NoResponse
  /\ providerStats' = <<>>
  /\ tripAt' = <<>>
  /\ httpResponse' = NoResponse
  /\ LET providers == getAvailableProviders(envKey, adminConfig, <<>>) IN
     /\ allAttempts' = <<>>
     /\ lastError' = ""
     /\ adapterCalls' = 0
     /\ i' = 0
     /\ IF Len(providers) = 0
        THEN /\ sortedProviders' = <<>>
             /\ pc' = "done"
             /\ result' = SystemErrorResult(NoProvidersMsg, <<>>)
        ELSE /\ sortedProviders' = sortProviders(providers)
             /\ pc' = "running"
             /\ result' = NoResult
  /\ UNCHANGED <<options, silent, inFlight, embedded, stored, pending, lastOp,
                 envKey, adminConfig, now, up>>

\* the rest of onRequestPost that calls saveImageToR2 before it looks at
\* generateResult.success
onRequestPostRespond_savesFirst ==
  /\ pc = "done"
  /\ httpResponse = NoResponse
  /\ IF ~result.success
     THEN httpResponse' = [status |-> 500, saved |-> TRUE, attempts |-> result.attempts]
     ELSE \E thrown \in BOOLEAN :
            httpResponse' = [status |-> IF thrown THEN 500 ELSE 200,
                         saved |-> TRUE, attempts |-> <<>>]
  /\ UNCHANGED <<options, silent, inFlight, embedded, stored, pending, lastOp,
                 envKey, adminConfig, providerStats, now, up, tripAt, callVars>>

\* the rest of onRequestPost: generate.ts:111-162 and the catch of 164-179.
\* A failed result is answered with status 500 and `debug: generateResult.debug`
\* (the attempts) without a call of saveImageToR2; a successful one is saved,
\* and the save either returns (status 200; the body's trace is the handler's
\* own, GenerationResult has no trace field) or throws into the catch (500).
onRequestPostRespond ==
  /\ pc = "done"
  /\ httpResponse = NoResponse
  /\ IF ~result.success
     THEN httpResponse' = [status |-> 500, saved |-> FALSE, attempts |-> result.attempts]
     ELSE \E thrown \in BOOLEAN :
            httpResponse' = [status |-> IF thrown THEN 500 ELSE 200,
                         saved |-> TRUE, attempts |-> <<>>]
  /\ UNCHANGED <<options, silent, inFlight, embedded, stored, pending, lastOp,
                 envKey, adminConfig, providerStats, now, up, tripAt, callVars>>

NextHandler ==
  \/ onRequestPostGenerate
  \/ AttemptSuccess
  \/ AttemptFailure
  \/ BackendFlip
  \/ onRequestPostRespond

\* requests handled one after the other, each up to its Response
SpecHandler == Init /\ [][NextHandler]_vars

\* C35: saveImageToR2 is called only for a result with success = true; a
\* result with success = false is answered with status 500 and the attempts
\* of the call, without a call of saveImageToR2.
C35_StoreOnlyAfterSuccess ==
  /\ httpResponse.saved => (pc = "done" /\ result.success)
  /\ (httpResponse # NoResponse /\ ~result.success)
       => /\ httpResponse.status = 500
          /\ ~httpResponse.saved
          /\ httpResponse.attempts = result.attempts

\* a request whose call failed after one attempt has been answered
C35_Witness ==
  /\ pc = "done"
  /\ ~result.success
  /\ Len(result.attempts) = 1
  /\ httpResponse.status = 500
  /\ ~httpResponse.saved

\* ---- C36 ----------------------------------------------------------------
\* C36: selectBestProvider(excludeKeys) returns null exactly when no available
\* provider is enabled, has a key outside excludeKeys and an errorCount below
\* ErrorThreshold; otherwise it returns the first such provider of the ranked
\* list, and what it returns never has an errorCount of ErrorThreshold or more.
C36_SelectBestSurvivor ==
  [][ OpStep("selectBestProvider")
      => LET excludeKeys == lastOp'.arg[1]
             selected == lastOp'.arg[2]
             providers == getAvailableProviders(envKey, adminConfig, providerStats)
             survivors == { k \in 1..Len(providers) :
                              /\ KeyOf(providers[k]) \notin excludeKeys
                              /\ providers[k].enabled
                              /\ OrZero(providers[k].errorCount) < ErrorThreshold }
         IN  /\ selected = <<>> <=> survivors = {}
             /\ survivors # {}
                  => \E k \in survivors :
                       /\ selected = <<providers[k]>>
                       /\ \A j \in survivors : k <= j
             /\ selected # <<>>
                  => OrZero(selected[1].errorCount) < ErrorThreshold ]_vars

\* a selection that excluded nothing passed over a provider with
\* ErrorThreshold errors and returned another one
C36_Witness ==
  /\ lastOp.op = "selectBestProvider"
  /\ lastOp.arg[1] = {}
  /\ lastOp.arg[2] # <<>>
  /\ \E id \in DOMAIN providerStats :
       /\ providerStats[id].errorCount >= ErrorThreshold
       /\ id # EnvId
       /\ id # lastOp.arg[2][1].id

\* ---- C37 ----------------------------------------------------------------
\* C37: the status of a reported provider depends on its reported errorCount
\* alone: 'failed' exactly from ErrorThreshold on, 'warning' exactly for 1
\* up to ErrorThreshold - 1, 'healthy' exactly for 0.
C37_StatusFromErrorCount ==
  [][ OpStep("getProviderStatuses")
      => \A k \in 1..Len(lastOp'.arg) :
           LET entry == lastOp'.arg[k] IN
           /\ entry.status = "failed" <=> entry.errorCount >= ErrorThreshold
           /\ entry.status = "warning"
                <=> (entry.errorCount >= 1 /\ entry.errorCount < ErrorThreshold)
           /\ entry.status = "healthy" <=> entry.errorCount = 0 ]_vars

\* a report with a provider at exactly ErrorThreshold errors, labelled failed,
\* next to one labelled warning
C37_Witness ==
  /\ lastOp.op = "getProviderStatuses"
  /\ \E k, j \in 1..Len(lastOp.arg) :
       /\ lastOp.arg[k].errorCount = ErrorThreshold
       /\ lastOp.arg[k].status = "failed"
       /\ lastOp.arg[j].status = "warning"

\* ---- C38 ----------------------------------------------------------------
\* The API-configuration endpoint of src/functions/api/generate.ts:336-817
\* ([AdminAPIConfig]). A name is the sequence of its characters.
RECURSIVE trimStart(_)
trimStart(s) == IF s # <<>> /\ Head(s) = " " THEN trimStart(Tail(s)) ELSE s

RECURSIVE trimEnd(_)
trimEnd(s) ==
  IF s # <<>> /\ s[Len(s)] = " " THEN trimEnd(SubSeq(s, 1, Len(s) - 1)) ELSE s

\* String.prototype.trim
trim(s) == trimEnd(trimStart(s))

\* data.name of a request
NameInputs == {<<>>, <<" ">>, <<"A">>, <<"A", " ">>, <<"B">>}

\* the data of an 'add' or 'update' request; complete: provider, baseUrl,
\* apiKey and model are non-blank
ConfigData ==
  [name : NameInputs, complete : BOOLEAN, enabled : BOOLEAN,
   priority : PriorityInputs]

\* handleAddAPI(env, adminConfig, data) of generate.ts:524-603: the required
\* fields are non-blank after trim, the name is looked up as given, and the
\* entry is stored under the trimmed name
handleAddAPIConfig(configs, data) ==
  IF data.name = <<>> \/ trim(data.name) = <<>> \/ ~data.complete
  THEN [status |-> 400, configs |-> configs]
  ELSE IF \E k \in 1..Len(configs) : configs[k].name = data.name
  THEN [status |-> 409, configs |-> configs]
  ELSE [status |-> 200,
        configs |-> Append(configs,
                      [name |-> trim(data.name),
                       enabled |-> data.enabled,
                       priority |-> IF data.priority = 0 THEN DefaultPriority
                                    ELSE data.priority])]

\* handleUpdateAPI(env, adminConfig, data) of generate.ts:605-666:
\* {...config, ...data}; data.name is the name the entry was found by
handleUpdateAPIConfig(configs, data) ==
  IF \A k \in 1..Len(configs) : configs[k].name # data.name
  THEN [status |-> 404, configs |-> configs]
  ELSE LET index == CHOOSE k \in 1..Len(configs) :
                      /\ configs[k].name = data.name
                      /\ \A j \in 1..(k - 1) : configs[j].name # data.name
       IN  [status |-> 200,
            configs |-> [configs EXCEPT ![index] =
                           [name |-> data.name, enabled |-> data.enabled,
                            priority |-> data.priority]]]

\* handleDeleteAPI(env, adminConfig, data) of generate.ts:668-723
handleDeleteAPIConfig(configs, data) ==
  IF \A k \in 1..Len(configs) : configs[k].name # data.name
  THEN [status |-> 404, configs |-> configs]
  ELSE LET index == CHOOSE k \in 1..Len(configs) :
                      /\ configs[k].name = data.name
                      /\ \A j \in 1..(k - 1) : configs[j].name # data.name
       IN  [status |-> 200,
            configs |-> SubSeq(configs, 1, index - 1)
                          \o SubSeq(configs, index + 1, Len(configs))]

\* onRequestPost of the endpoint, action 'add'; adminConfig is the api_configs
\* list of the record verifyToken has read
ConfigAdd ==
  /\ lastOp.seq < MaxOps
  /\ \E data \in ConfigData :
       LET r == handleAddAPIConfig(adminConfig, data) IN
       /\ adminConfig' = r.configs
       /\ lastOp' = Op("add", <<data.name>>, r.status)
  /\ UNCHANGED <<extVars, envKey, providerStats, now, up, tripAt, callVars>>

\* action 'update'
ConfigUpdate ==
  /\ lastOp.seq < MaxOps
  /\ \E data \in ConfigData :
       LET r == handleUpdateAPIConfig(adminConfig, data) IN
       /\ adminConfig' = r.configs
       /\ lastOp' = Op("update", <<data.name>>, r.status)
  /\ UNCHANGED <<extVars, envKey, providerStats, now, up, tripAt, callVars>>

\* action 'delete'
ConfigDelete ==
  /\ lastOp.seq < MaxOps
  /\ \E data \in ConfigData :
       LET r == handleDeleteAPIConfig(adminConfig, data) IN
       /\ adminConfig' = r.configs
       /\ lastOp' = Op("delete", <<data.name>>, r.status)
  /\ UNCHANGED <<extVars, envKey, providerStats, now, up, tripAt, callVars>>

\* the record holds an empty api_configs list
InitConfig ==
  /\ envKey = FALSE
  /\ adminConfig = <<>>
  /\ providerStats = <<>>
  /\ now = 30000
  /\ up = {}
  /\ pc = "idle"
  /\ sortedProviders = <<>>
  /\ i = 0
  /\ allAttempts = <<>>
  /\ lastError = ""
  /\ result = NoResult
  /\ adapterCalls = 0
  /\ tripAt = <<>>
  /\ lastOp = NoOp
  /\ options = NoOptions
  /\ silent = {}
  /\ inFlight = {}
  /\ pending = {}
  /\ httpResponse = NoResponse
  /\ stored = "list"
  /\ embedded = 0

NextConfig ==
  \/ ConfigAdd
  \/ ConfigUpdate
  \/ ConfigDelete

\* requests to the API-configuration endpoint, one after the other
SpecConfig == InitConfig /\ [][NextConfig]_vars

\* C38: no two entries of the stored api_configs list have the same name.
C38_NamesDistinct ==
  \A j, k \in 1..Len(adminConfig) :
    adminConfig[j].name = adminConfig[k].name => j = k

\* ---- C39 ----------------------------------------------------------------
\* C39: an admin 'add' with the required fields and a name that no stored
\* entry has is answered with 200 and its entry is in the store afterwards,
\* whatever the stored record was, a record without api_configs included.
\* (Status 400 is the answer to a body without the required fields; without
\* any record no request passes validateAdminToken.)
C39_AddUnusedNameSucceeds ==
  [][ ( /\ OpStep("handleAddAPI")
        /\ stored # "null"
        /\ lastOp'.status # 400
        /\ \A k \in 1..Len(adminConfig) : adminConfig[k].name # lastOp'.arg[1] )
      => /\ lastOp'.status = 200
         /\ \E k \in 1..Len(adminConfig') :
              adminConfig'[k].name = lastOp'.arg[1] ]_vars

\* ---- C40 ----------------------------------------------------------------
\* The admin handlers as they run: each awaits ADMIN_KV.get('admin_config'),
\* changes its own parsed copy and awaits ADMIN_KV.put of the whole record.
\* Requests are separate invocations; nothing orders the get of one after
\* the put of another.

\* the requests that may arrive: action 'add' with a body, 'update' and
\* 'toggle' with the fields to assign, 'delete'
AdminRequests ==
  { [op |-> "handleAddAPI", name |-> body.name, data |-> body] :
      body \in AddBodies }
  \cup { [op |-> "handleUpdateAPI", name |-> name, data |-> [priority |-> p]] :
           name \in AdminNames, p \in PriorityInputs }
  \cup { [op |-> "handleUpdateAPI", name |-> name, data |-> [enabled |-> e]] :
           name \in AdminNames, e \in BOOLEAN }
  \cup { [op |-> "handleDeleteAPI", name |-> name, data |-> <<>>] :
           name \in AdminNames }

\* what the handler of request makes of the api_configs it has read
AdminHandle(request, configs) ==
  IF request.op = "handleAddAPI" THEN handleAddAPI(configs, request.data)
  ELSE IF request.op = "handleUpdateAPI"
  THEN handleUpdateAPI(configs, request.name, request.data)
  ELSE handleDeleteAPI(configs, request.name)

\* a request passes its `await env.ADMIN_KV.get('admin_config')`:
\* part_000:147-148, 204-210, 257-262
AdminGet ==
  /\ Cardinality(pending) + lastOp.seq < MaxOps
  /\ \E request \in AdminRequests :
       LET held == [request |-> request, read |-> adminConfig] IN
       /\ held \notin pending
       /\ pending' = pending \cup {held}
  /\ UNCHANGED <<httpResponse, embedded, stored, options, silent, inFlight, lastOp,
                 envKey, adminConfig, providerStats, now, up, tripAt, callVars>>

\* the request goes on from its get to its Response: the handler works on the
\* copy it has read and, unless it answers an error, puts that copy:
\* part_000:150-190, 212-243, 264-290
AdminPut ==
  /\ \E held \in pending :
       LET r == AdminHandle(held.request, held.read) IN
       /\ adminConfig' = IF r.status = 200 THEN r.configs ELSE adminConfig
       /\ lastOp' = Op(held.request.op, <<held.request.name>>, r.status)
       /\ pending' = pending \ {held}
  /\ UNCHANGED <<httpResponse, embedded, stored, options, silent, inFlight,
                 envKey, providerStats, now, up, tripAt, callVars>>

\* no request has arrived yet
InitInterleaved ==
  /\ InitAdmin
  /\ pending = {}

NextInterleaved ==
  \/ AdminGet
  \/ AdminPut

\* admin requests whose gets and puts interleave
SpecInterleaved == InitInterleaved /\ [][NextInterleaved]_vars

\* the stored entries with the given name
EntriesNamed(configs, name) ==
  { configs[k] : k \in { j \in 1..Len(configs) : configs[j].name = name } }

\* C40: an acknowledged admin write changes the stored entries of its own
\* name only: what an earlier write on another name has stored (or deleted)
\* is still so after it, however the two requests interleave.
C40_NoLostWrite ==
  [][ ( /\ lastOp' # lastOp
        /\ lastOp'.op \in {"handleAddAPI", "handleUpdateAPI", "handleDeleteAPI"}
        /\ lastOp'.status = 200 )
      => \A name \in AdminNames :
           name # lastOp'.arg[1]
             => EntriesNamed(adminConfig', name) = EntriesNamed(adminConfig, name)
    ]_vars

====
